---- MODULE Spec2Model ----
(***************************************************************************)
(* A model of the trip planner of trippai_ai: the multi-city planner        *)
(* (multi_city_planner.py), the single-city scoring pipeline                *)
(* (services/forecast_service.py, utils/score_calculator.py,               *)
(* models/trip_time_ai.py) and the stand-alone normalisers                  *)
(* (price_service.py, services/crowd_service.py).                           *)
(*                                                                         *)
(* Number representation.  The code computes in float64; the model uses     *)
(* fixed point:                                                             *)
(*   prices, budgets         whole dollars                                  *)
(*   costs                   cents                                          *)
(*   distances               whole kilometres                               *)
(*   scores                  ten-thousandths of a point (0 .. 1000000)      *)
(*   confidence, z-score     thousandths                                    *)
(*   dates                   day numbers                                    *)
(* An Optional value is a sequence: << >> is None, << v >> is the value v.  *)
(* A float that may be NaN is a sequence too: << >> is NaN.                 *)
(***************************************************************************)
EXTENDS Integers, Sequences, FiniteSets, TLC

VARIABLES
    \* ---- MultiCityPlanner: the planner object and the arguments of plan_trip
    origin_city,
    cities,          \* the list of CityStop objects handed in
    total_days,
    start_date,      \* Optional day number
    optimize_route,
    max_budget,      \* Optional dollars
    city_data,       \* city name -> the merged forecasts TripTimeAI obtains
                     \* for that city, << >> when they cannot be obtained
    \* ---- MultiCityPlanner.plan_trip: locals and position
    pc,              \* position of the call
    route,           \* local `cities` after the route optimisation
    day_allocation,  \* city name -> days
    trip_start,      \* local `start_date` once known (Optional)
    itinerary,       \* list of per-city entries
    cost_breakdown,  \* dict returned by _calculate_trip_costs
    outcome,         \* how the call ended
    overall_score,   \* dict returned by _calculate_overall_score
    city_predictions, \* dict built by _find_optimal_start_date, as its items
    predict_calls,   \* the predict_best_time calls of _find_optimal_start_date
    steps,           \* the stages the current call has performed
    \* ---- TripTimeAI.predict_best_time / ForecastService
    now,             \* the day "today"
    raw_forecast,    \* merged Prophet forecasts, before the bounds
    trip_days,
    fc_max_budget,   \* max_budget of predict_best_time (Optional dollars)
    fpc,             \* position of the call
    forecast_df,     \* train_forecast_models' result
    scored_df,       \* calculate_travel_scores' result
    predictions_df,  \* find_best_travel_window's first result
    best_window,     \* find_best_travel_window's second result
    confidence,
    validated_window,
    output,          \* predict_best_time's result
    \* ---- PriceService / CrowdService normalisers
    npc,
    price_df,
    crowd_df,
    \* ---- ForecastService._aggregate_weekly
    wpc,             \* position of the call
    daily_df,        \* the merged daily data handed in
    weekly_df        \* the weekly table returned

planVars == << origin_city, cities, total_days, start_date, optimize_route,
               max_budget, city_data, pc, route, day_allocation, trip_start, itinerary,
               cost_breakdown, outcome, overall_score, city_predictions,
               predict_calls, steps >>

fcVars == << now, raw_forecast, trip_days, fc_max_budget, fpc, forecast_df,
             scored_df, predictions_df, best_window, confidence,
             validated_window, output >>

normVars == << npc, price_df, crowd_df >>

weeklyVars == << wpc, daily_df, weekly_df >>

vars == << planVars, fcVars, normVars, weeklyVars >>

None == << >>
Some(v) == << v >>
IsNone(o) == o = << >>
Val(o) == o[1]

Min(a, b) == IF a <= b THEN a ELSE b
Max(a, b) == IF a >= b THEN a ELSE b
Abs(a) == IF a >= 0 THEN a ELSE 0 - a
Clip(x, lo, hi) == IF x < lo THEN lo ELSE IF x > hi THEN hi ELSE x

RECURSIVE SumSeq(_)
SumSeq(s) == IF s = << >> THEN 0 ELSE Head(s) + SumSeq(Tail(s))

RECURSIVE SumFun(_, _)
SumFun(f, D) ==
    IF D = {} THEN 0
    ELSE LET k == CHOOSE x \in D : TRUE IN f[k] + SumFun(f, D \ {k})

SeqMin(s) == CHOOSE x \in { s[i] : i \in DOMAIN s } : \A j \in DOMAIN s : x <= s[j]
SeqMax(s) == CHOOSE x \in { s[i] : i \in DOMAIN s } : \A j \in DOMAIN s : x >= s[j]
Col(df, f) == [i \in DOMAIN df |-> df[i][f]]

\* Largest r with r * r <= n, by bisection on lo <= r < hi.
RECURSIVE ISqrtIn(_, _, _)
ISqrtIn(n, lo, hi) ==
    IF hi - lo <= 1 THEN lo
    ELSE LET mid == (lo + hi) \div 2
         IN IF mid * mid <= n THEN ISqrtIn(n, mid, hi) ELSE ISqrtIn(n, lo, mid)

ISqrt(n) == ISqrtIn(n, 0, 46341)

\* Python's int() on a quotient of non-negative integers: truncation.
\* The code computes int(r * (p / t)) in float64; for r < 22 (every r the
\* model's bounds allow) that equals the exact floor of r*p/t.
IntTrunc(num, den) == num \div den

(***************************************************************************)
(* config.CITY_COORDINATES and the haversine distance.                      *)
(***************************************************************************)
CITY_COORDINATES == {"paris", "barcelona", "london", "rome", "tokyo"}

\* _calculate_distance (haversine, R = 6371 km) evaluated on the coordinates
\* of CITY_COORDINATES and rounded to whole km; it is symmetric and 0 on
\* equal coordinates.
HaversineKm ==
    { << "paris", "barcelona", 831 >>, << "paris", "london", 344 >>,
      << "paris", "rome", 1105 >>, << "paris", "tokyo", 9712 >>,
      << "barcelona", "london", 1139 >>, << "barcelona", "rome", 860 >>,
      << "barcelona", "tokyo", 10413 >>, << "london", "rome", 1434 >>,
      << "london", "tokyo", 9559 >>, << "rome", "tokyo", 9852 >> }

calculate_distance(a, b) ==
    IF a = b THEN 0
    ELSE (CHOOSE t \in HaversineKm : {t[1], t[2]} = {a, b})[3]

(***************************************************************************)
(* CityStop                                                                 *)
(***************************************************************************)
\* CityStop.__init__ without lat/lon: the coordinates are those of the
\* lookup table entry of the name, so the record carries the name as `coords`.
CityStop(city, min_days, max_days, preferred_days) ==
    [ city |-> city,
      min_days |-> min_days,
      max_days |-> max_days,
      preferred_days |-> IF IsNone(preferred_days) \/ Val(preferred_days) = 0
                         THEN min_days ELSE Val(preferred_days),
      coords |-> city ]

\* CityStop._lookup_coordinates: the table entry of the name, or the
\* ValueError "Coordinates not found for ...".
lookup_coordinates(city) ==
    IF city \in CITY_COORDINATES
    THEN [ coords |-> city ]
    ELSE [ exception |-> "ValueError", message |-> "Coordinates not found" ]

\* The names of the table inside WeatherService.get_coordinates.
WEATHER_COORDINATES ==
    { "paris", "tokyo", "new york", "london", "barcelona", "bali", "dubai",
      "sydney", "rome", "bangkok" }

\* WeatherService.get_coordinates: the table entry of the destination, the
\* entry of Paris (after a printed warning) when there is none.
get_coordinates(destination) ==
    IF destination \in WEATHER_COORDINATES
    THEN [ coords |-> destination ]
    ELSE [ coords |-> "paris" ]

CityNames(cs) == { cs[i].city : i \in DOMAIN cs }

(***************************************************************************)
(* MultiCityPlanner._allocate_days                                          *)
(***************************************************************************)
\* allocation = {city.city: city.min_days for city in cities}: a dict keyed
\* by city name, a later stop of the same name overwriting an earlier one.
InitialAllocation(cs) ==
    [ c \in CityNames(cs) |->
        LET last == CHOOSE i \in DOMAIN cs :
                       /\ cs[i].city = c
                       /\ \A j \in DOMAIN cs : cs[j].city = c => j <= i
        IN cs[last].min_days ]

\* ProportionalPass without the cap "extra_days = min(extra_days, max_extra)".
RECURSIVE ProportionalPassUncapped(_, _, _, _, _)
ProportionalPassUncapped(cs, allocation, remaining_days, total_preferred, i) ==
    IF i > Len(cs) THEN allocation
    ELSE LET city == cs[i]
             extra_days == IntTrunc(remaining_days * city.preferred_days,
                                    total_preferred)
         IN ProportionalPassUncapped(cs,
                [allocation EXCEPT ![city.city] = @ + extra_days],
                remaining_days, total_preferred, i + 1)

\* The loop "for city in cities" of lines 292-301, from stop i on.
RECURSIVE ProportionalPass(_, _, _, _, _)
ProportionalPass(cs, allocation, remaining_days, total_preferred, i) ==
    IF i > Len(cs) THEN allocation
    ELSE LET city == cs[i]
             extra_days == IntTrunc(remaining_days * city.preferred_days,
                                    total_preferred)
             max_extra == city.max_days - allocation[city.city]
             capped == Min(extra_days, max_extra)
         IN ProportionalPass(cs,
                [allocation EXCEPT ![city.city] = @ + capped],
                remaining_days, total_preferred, i + 1)

\* The loop "for city in cities" of lines 308-311, from stop i on: one pass.
RECURSIVE LeftoverPass(_, _, _, _)
LeftoverPass(cs, allocation, leftover, i) ==
    IF i > Len(cs) THEN allocation
    ELSE LET city == cs[i] IN
         IF allocation[city.city] < city.max_days /\ leftover > 0
         THEN LeftoverPass(cs, [allocation EXCEPT ![city.city] = @ + 1],
                           leftover - 1, i + 1)
         ELSE LeftoverPass(cs, allocation, leftover, i + 1)

allocate_days(cs, total) ==
    LET allocation == InitialAllocation(cs)
        remaining_days == total - SumFun(allocation, DOMAIN allocation)
    IN IF remaining_days <= 0 THEN allocation
       ELSE LET total_preferred ==
                    SumSeq([i \in DOMAIN cs |-> cs[i].preferred_days])
                shared == ProportionalPass(cs, allocation, remaining_days,
                                           total_preferred, 1)
                days_allocated == SumFun(shared, DOMAIN shared)
            IN IF days_allocated < total
               THEN LeftoverPass(cs, shared, total - days_allocated, 1)
               ELSE shared

(***************************************************************************)
(* MultiCityPlanner._optimize_route                                         *)
(***************************************************************************)
ExhaustiveLimit == 6

\* _calculate_route_distance: the open path, no return leg.
calculate_route_distance(cs) ==
    SumSeq([i \in 1 .. (Len(cs) - 1) |->
               calculate_distance(cs[i].coords, cs[i + 1].coords)])

\* itertools.permutations(cities): the arrangements of the positions 1..n,
\* produced in lexicographic order of the positions.
permutations(n) ==
    { p \in [1 .. n -> 1 .. n] : \A i, j \in 1 .. n : p[i] = p[j] => i = j }

LexBefore(p, q) ==
    \E k \in DOMAIN p :
        /\ p[k] < q[k]
        /\ \A j \in 1 .. (k - 1) : p[j] = q[j]

Arrange(cs, p) == [i \in DOMAIN cs |-> cs[p[i]]]

\* The route left exactly as it was handed in (no search at all).
optimize_route_identity(cs) == cs

\* _optimize_route_exhaustive: the strict "<" keeps the first arrangement,
\* in the order of production, that attains the minimum.
optimize_route_exhaustive(cs) ==
    LET P == permutations(Len(cs))
        d(p) == calculate_route_distance(Arrange(cs, p))
        best == CHOOSE p \in P :
                   \A q \in P : d(p) < d(q) \/ (d(p) = d(q) /\ ~LexBefore(q, p))
    IN Arrange(cs, best)

RemoveAt(s, k) == [i \in 1 .. (Len(s) - 1) |-> IF i < k THEN s[i] ELSE s[i + 1]]

\* The while loop of _optimize_route_greedy: min() returns the first of the
\* nearest stops of `remaining`, and remove() takes that very stop out.
RECURSIVE GreedyLoop(_, _)
GreedyLoop(rt, remaining) ==
    IF remaining = << >> THEN rt
    ELSE LET last_city == rt[Len(rt)]
             dist(k) == calculate_distance(last_city.coords, remaining[k].coords)
             nearest == CHOOSE k \in DOMAIN remaining :
                           /\ \A j \in DOMAIN remaining : dist(k) <= dist(j)
                           /\ \A j \in 1 .. (k - 1) : dist(j) > dist(k)
         IN GreedyLoop(Append(rt, remaining[nearest]), RemoveAt(remaining, nearest))

optimize_route_greedy(cs) ==
    IF cs = << >> THEN cs ELSE GreedyLoop(<< cs[1] >>, Tail(cs))

optimize_route_fn(cs) ==
    IF Len(cs) <= 1 THEN cs
    ELSE IF Len(cs) <= ExhaustiveLimit THEN optimize_route_exhaustive(cs)
    ELSE optimize_route_greedy(cs)

(***************************************************************************)
(* ForecastService._apply_bounds_validation                                 *)
(***************************************************************************)
\* The forecast handed on as merged, no column clipped.
apply_no_bounds(df) == df

apply_bounds_validation(df) ==
    [i \in DOMAIN df |->
        [ date |-> df[i].date,
          price_hat |-> Clip(df[i].price_hat, 100, 2000),
          temp_hat |-> Clip(df[i].temp_hat, 0 - 20, 45),
          precip_hat |-> Clip(df[i].precip_hat, 0, 200),
          crowd_hat |-> Clip(df[i].crowd_hat, 0, 100) ]]

(***************************************************************************)
(* ForecastService.calculate_travel_scores                                  *)
(***************************************************************************)
IDEAL_TEMP == 22
TEMP_TOLERANCE == 15

\* (hi - v) / (hi - lo), clipped to [0, 1], times 100; 50.0 when the range
\* is not above 0.01 (whole units here: when hi = lo).
MinMaxInvertScore(v, lo, hi) ==
    IF hi - lo > 0
    THEN Clip(((hi - v) * 1000000) \div (hi - lo), 0, 1000000)
    ELSE 500000

\* 1 - |temp - ideal| / tolerance, clipped to [0, 1], times 100.
TemperatureScore(temp) ==
    Clip(1000000 - (Abs(temp - IDEAL_TEMP) * 1000000) \div TEMP_TOLERANCE,
         0, 1000000)

\* precip_penalty = (1 - precip_hat / max precip_hat) * 20, or 0 when the
\* series has no precipitation at all.
PrecipPenalty(precip, precip_max) ==
    IF precip_max > 0
    THEN ((precip_max - precip) * 200000) \div precip_max
    ELSE 0

\* The weights of config.TRAVEL_SCORE_WEIGHTS (price 0.4, weather 0.35,
\* crowd 0.25) in place of the pipeline's 0.40 / 0.30 / 0.30.
WeightedTravelScoreConfigWeights(price_score, weather_score, crowd_score) ==
    (40 * price_score + 35 * weather_score + 25 * crowd_score) \div 100

\* travel_score = 0.40 * price_score + 0.30 * weather_score + 0.30 * crowd_score
WeightedTravelScore(price_score, weather_score, crowd_score) ==
    (40 * price_score + 30 * weather_score + 30 * crowd_score) \div 100

calculate_travel_scores(df) ==
    LET price_min == SeqMin(Col(df, "price_hat"))
        price_max == SeqMax(Col(df, "price_hat"))
        crowd_min == SeqMin(Col(df, "crowd_hat"))
        crowd_max == SeqMax(Col(df, "crowd_hat"))
        precip_max == SeqMax(Col(df, "precip_hat"))
        scored(r) ==
            LET price_score == MinMaxInvertScore(r.price_hat, price_min, price_max)
                crowd_score == MinMaxInvertScore(r.crowd_hat, crowd_min, crowd_max)
                precip_penalty == PrecipPenalty(r.precip_hat, precip_max)
                weather_score ==
                    Clip(TemperatureScore(r.temp_hat) - precip_penalty, 0, 1000000)
            IN [ date |-> r.date,
                 price_hat |-> r.price_hat,
                 temp_hat |-> r.temp_hat,
                 precip_hat |-> r.precip_hat,
                 crowd_hat |-> r.crowd_hat,
                 price_score |-> price_score,
                 crowd_score |-> crowd_score,
                 precip_penalty |-> precip_penalty,
                 weather_score |-> weather_score,
                 travel_score |->
                     WeightedTravelScore(price_score, weather_score, crowd_score) ]
    IN [i \in DOMAIN df |-> scored(df[i])]

(***************************************************************************)
(* ForecastService.find_best_travel_window                                  *)
(***************************************************************************)
\* round(x, 1) of a score: to the nearest tenth of a point.
Round1(x) == ((x + 500) \div 1000) * 1000
\* round(x, 2) of a score: to the nearest hundredth of a point.
Round2(x) == ((x + 50) \div 100) * 100

\* df[df["date"] >= today]
FutureOnly(df, today) == SelectSeq(df, LAMBDA r : r.date >= today)

\* The budget filter with "<" for "<=".
WithinBudgetStrict(df, budget) == SelectSeq(df, LAMBDA r : r.price_hat < budget)

\* df[df["price_hat"] <= max_budget]
WithinBudget(df, budget) == SelectSeq(df, LAMBDA r : r.price_hat <= budget)

\* max(1, trip_days // 7)
WeeksWindow(days) == Max(1, days \div 7)

\* df["travel_score"].rolling(window, min_periods=1, center=False).mean():
\* the mean over the row and the up to window-1 rows before it in df.
RollingMean(df, window) ==
    [i \in DOMAIN df |->
        LET first == Max(1, i - window + 1)
        IN SumSeq([k \in 1 .. (i - first + 1) |-> df[first + k - 1].travel_score])
              \div (i - first + 1)]

WithRolling(df, window) ==
    LET rolling == RollingMean(df, window)
    IN [i \in DOMAIN df |->
           [ date |-> df[i].date,
             price_hat |-> df[i].price_hat,
             temp_hat |-> df[i].temp_hat,
             precip_hat |-> df[i].precip_hat,
             crowd_hat |-> df[i].crowd_hat,
             price_score |-> df[i].price_score,
             crowd_score |-> df[i].crowd_score,
             precip_penalty |-> df[i].precip_penalty,
             weather_score |-> df[i].weather_score,
             travel_score |-> df[i].travel_score,
             rolling_score |-> rolling[i] ]]

\* The last row holding the maximum.
IdxMaxLast(df, f) ==
    CHOOSE i \in DOMAIN df :
        /\ \A j \in DOMAIN df : df[j][f] <= df[i][f]
        /\ \A j \in (i + 1) .. Len(df) : df[j][f] < df[i][f]

\* Series.idxmax(): the first row holding the maximum.
IdxMax(df, f) ==
    CHOOSE i \in DOMAIN df :
        /\ \A j \in DOMAIN df : df[j][f] <= df[i][f]
        /\ \A j \in 1 .. (i - 1) : df[j][f] < df[i][f]

\* df.sort_values("rolling_score", ascending=False).  Rows of equal score
\* are kept in date order here; nothing downstream reads the order.
RECURSIVE SortByRollingDesc(_)
SortByRollingDesc(df) ==
    IF df = << >> THEN << >>
    ELSE LET k == IdxMax(df, "rolling_score")
         IN << df[k] >> \o SortByRollingDesc(
                [i \in 1 .. (Len(df) - 1) |-> IF i < k THEN df[i] ELSE df[i + 1]])

BestWindowOf(best_row, days) ==
    [ best_week |-> best_row.date,
      travel_score |-> Round2(best_row.rolling_score),
      price |-> best_row.price_hat,
      temperature |-> best_row.temp_hat,
      precipitation |-> best_row.precip_hat,
      crowd_level |-> best_row.crowd_hat,
      price_score |-> Round1(best_row.price_score),
      weather_score |-> Round1(best_row.weather_score),
      crowd_score |-> Round1(best_row.crowd_score),
      trip_days |-> days ]

\* Returns the pair (DataFrame, best window) as a record.  future_only is
\* always True on the single-city path.
find_best_travel_window(scored, days, today, budget) ==
    LET future == FutureOnly(scored, today)
        cand == IF IsNone(budget) THEN future
                ELSE WithinBudget(future, Val(budget))
    IN IF future = << >>
       THEN [ df |-> future,
              best_window |-> [ error |-> "No future dates available" ] ]
       ELSE IF cand = << >>
       THEN [ df |-> scored,
              best_window |-> [ error |-> "No periods found within budget",
                                min_price |-> SeqMin(Col(scored, "price_hat")) ] ]
       ELSE LET df == WithRolling(cand, WeeksWindow(days))
                best_row == df[IdxMax(df, "rolling_score")]
            IN [ df |-> SortByRollingDesc(df),
                 best_window |-> BestWindowOf(best_row, days) ]

(***************************************************************************)
(* utils.score_calculator                                                   *)
(***************************************************************************)
\* Series.mean()
MeanScore(xs) == SumSeq(xs) \div Len(xs)

\* Series.std(): the sample standard deviation (ddof = 1).
\* Deviations wider than one point are squared in a coarser unit, which
\* keeps the sum of squares within 32 bits; a series that is not constant
\* has a deviation above zero.
StdScore(xs) ==
    LET m == MeanScore(xs)
        devs == [i \in DOMAIN xs |-> xs[i] - m]
        unit == SeqMax([i \in DOMAIN xs |-> Abs(devs[i])]) \div 10000 + 1
        root == unit * ISqrt(SumSeq([i \in DOMAIN xs |->
                                       (devs[i] \div unit) * (devs[i] \div unit)])
                                \div (Len(xs) - 1))
    IN IF \A i \in DOMAIN xs : xs[i] = xs[1] THEN 0 ELSE Max(root, 1)

\* (best_score - mean_score) / std_score in thousandths.  The confidence
\* is cut to [0.3, 1.0], which is reached at z = -1 and z = 2.5: a z-score
\* beyond +-10 is carried as +-10.
ZScore(best_score, mean_score, std_score) ==
    Clip(((best_score - mean_score) * 1000) \div std_score, 0 - 10000, 10000)

\* calculate_confidence without the floor "max(confidence, 0.3)".
calculate_confidence_no_floor(df, window) ==
    IF "error" \in DOMAIN window THEN 300
    ELSE IF Len(df) < 2 THEN 500
    ELSE LET best_score == IF "travel_score" \in DOMAIN window
                           THEN window.travel_score ELSE 500000
             all_scores == Col(df, "rolling_score")
             mean_score == MeanScore(all_scores)
             std_score == StdScore(all_scores)
         IN IF std_score = 0 THEN 500
            ELSE LET z_score == ZScore(best_score, mean_score, std_score)
                 IN Min(500 + (z_score * 200) \div 1000, 1000)

\* calculate_confidence, in thousandths.  The columns hold no NaN (NaN
\* travel scores were replaced by 50.0 when scoring), so dropna() keeps
\* every row.
calculate_confidence(df, window) ==
    IF "error" \in DOMAIN window THEN 300
    ELSE IF Len(df) < 2 THEN 500
    ELSE LET best_score == IF "travel_score" \in DOMAIN window
                           THEN window.travel_score ELSE 500000
             all_scores == Col(df, "rolling_score")
             mean_score == MeanScore(all_scores)
             std_score == StdScore(all_scores)
         IN IF std_score = 0 THEN 500
            ELSE LET z_score == ZScore(best_score, mean_score, std_score)
                     confidence0 == Min(500 + (z_score * 200) \div 1000, 1000)
                 IN Max(confidence0, 300)

validate_predictions(window) ==
    [ best_week |-> window.best_week,
      travel_score |-> Clip(window.travel_score, 0, 1000000),
      price |-> Clip(window.price, 150, 1500),
      temperature |-> Clip(window.temperature, 0 - 10, 45),
      precipitation |-> Clip(window.precipitation, 0, 150),
      crowd_level |-> Clip(window.crowd_level, 0, 100),
      price_score |-> Clip(window.price_score, 0, 1000000),
      weather_score |-> Clip(window.weather_score, 0, 1000000),
      crowd_score |-> Clip(window.crowd_score, 0, 1000000),
      trip_days |-> window.trip_days ]

(***************************************************************************)
(* TripTimeAI                                                               *)
(***************************************************************************)
\* _structure_output; the destination, coordinates and generated texts are
\* left out.  confidence is rounded to two decimals.
\* round(confidence, 2) of a confidence in thousandths.
RoundConfidence(conf) == ((conf + 5) \div 10) * 10

structure_output(validated, conf, days) ==
    [ best_start_date |-> validated.best_week,
      best_end_date |-> validated.best_week + days,
      predicted_price |-> validated.price,
      predicted_temp |-> validated.temperature,
      predicted_precipitation |-> validated.precipitation,
      predicted_crowd |-> validated.crowd_level,
      travel_score |-> Round2(validated.travel_score),
      confidence |-> RoundConfidence(conf),
      scores |-> [ price_score |-> Round1(validated.price_score),
                   weather_score |-> Round1(validated.weather_score),
                   crowd_score |-> Round1(validated.crowd_score) ],
      trip_days |-> days ]

\* The ValueError of lines 125-129; only the budget message holds "budget".
RaisedFor(window) ==
    [ exception |-> "ValueError",
      message |-> window.error,
      mentions_budget |-> window.error = "No periods found within budget" ]

\* predict_best_time on the merged forecasts `raw` of the destination.
predict_best_time(raw, days, today, budget) ==
    LET scored == calculate_travel_scores(apply_bounds_validation(raw))
        found == find_best_travel_window(scored, days, today, budget)
    IN IF "error" \in DOMAIN found.best_window
       THEN RaisedFor(found.best_window)
       ELSE structure_output(validate_predictions(found.best_window),
                             calculate_confidence(found.df, found.best_window),
                             days)

(***************************************************************************)
(* MultiCityPlanner.plan_trip and its steps                                 *)
(***************************************************************************)
\* How a call ended: not yet, with a result, or with an exception (and the
\* amount its message quotes, if any).
NoOutcome == [ status |-> "none", exception |-> "", quoted |-> None ]
Returned == [ status |-> "returned", exception |-> "", quoted |-> None ]
Raised(exception, quoted) ==
    [ status |-> "raised", exception |-> exception, quoted |-> quoted ]

\* Python truthiness of an Optional number: None and 0 are falsy.
Truthy(opt) == ~IsNone(opt) /\ Val(opt) # 0

min_total_days(cs) == SumSeq([i \in DOMAIN cs |-> cs[i].min_days])

\* The input validation left out.
ValidationFailsNever(cs, total) == FALSE

\* if total_days < min_total_days: raise ValueError
ValidationFails(cs, total) == total < min_total_days(cs)

\* TripTimeAI(city).predict_best_time(...) as the planner sees it: the
\* result dict, or a record describing the exception raised.
PredictCity(data, city, days, today, budget) ==
    IF data[city] = << >>
    THEN [ exception |-> "Exception",
           message |-> "forecast data unavailable",
           mentions_budget |-> FALSE ]
    ELSE predict_best_time(data[city], days, today, budget)

\* max_budget / (len(cities) * 1.3).  Prices are whole dollars, so comparing
\* a price with the quotient is comparing it with the quotient's floor.
PerCityBudget(budget, n) ==
    IF Truthy(budget) /\ n > 0
    THEN Some((Val(budget) * 10) \div (13 * n))
    ELSE None

\* A second attempt after every failure, whatever its message.
RetryAfterAnyFailure(max_b, failure) == TRUE

\* if max_budget and "budget" in str(e).lower()
RetryWithoutBudget(max_b, failure) == Truthy(max_b) /\ failure.mentions_budget

\* The predict_best_time calls of one iteration of that loop, in order: the
\* call of the try block and, when the except block retries, its call.
CityCalls(data, stop, allocation, today, budget) ==
    LET n == allocation[stop.city]
        first == PredictCity(data, stop.city, n, today, budget.per_city)
        second == PredictCity(data, stop.city, n, today, None)
        call(b, result, retry) ==
            [ city |-> stop.city,
              trip_days |-> n,
              max_budget |-> b,
              retry |-> retry,
              result |-> result,
              failed |-> "exception" \in DOMAIN result,
              budget_failure |-> /\ "exception" \in DOMAIN result
                                 /\ result.mentions_budget ]
    IN IF "exception" \in DOMAIN first
          /\ RetryWithoutBudget(budget.max_budget, first)
       THEN << call(budget.per_city, first, FALSE), call(None, second, TRUE) >>
       ELSE << call(budget.per_city, first, FALSE) >>

\* d[k] = v on a dict held as the list of its (key, value) pairs in
\* insertion order.
DictPut(d, k, v) ==
    IF \E i \in DOMAIN d : d[i][1] = k
    THEN [i \in DOMAIN d |-> IF d[i][1] = k THEN << k, v >> ELSE d[i]]
    ELSE Append(d, << k, v >>)

\* Every predict_best_time call of _find_optimal_start_date, in order.
PredictCalls(data, cs, allocation, today, max_b) ==
    LET budget == [ max_budget |-> max_b,
                    per_city |-> PerCityBudget(max_b, Len(cs)) ]
        acc[i \in 0 .. Len(cs)] ==
            IF i = 0 THEN << >>
            ELSE acc[i - 1] \o CityCalls(data, cs[i], allocation, today, budget)
    IN acc[Len(cs)]

\* city_predictions[city.city] = result after each call that returned: the
\* dict the calls leave behind.
CityPredictions(calls) ==
    LET acc[i \in 0 .. Len(calls)] ==
            IF i = 0 THEN << >>
            ELSE IF calls[i].failed THEN acc[i - 1]
                 ELSE DictPut(acc[i - 1], calls[i].city, calls[i].result)
    IN acc[Len(calls)]

\* The last item holding the highest travel_score.
BestCityLast(preds) ==
    preds[CHOOSE i \in DOMAIN preds :
            /\ \A j \in DOMAIN preds : preds[j][2].travel_score <= preds[i][2].travel_score
            /\ \A j \in (i + 1) .. Len(preds) : preds[j][2].travel_score < preds[i][2].travel_score]

\* max(city_predictions.items(), key=travel_score): the first item holding
\* the highest travel_score.
BestCity(preds) ==
    preds[CHOOSE i \in DOMAIN preds :
            /\ \A j \in DOMAIN preds : preds[j][2].travel_score <= preds[i][2].travel_score
            /\ \A j \in 1 .. (i - 1) : preds[j][2].travel_score < preds[i][2].travel_score]

FallbackWeeks == 4

\* The return value of _find_optimal_start_date for the dict its loop built:
\* the best week of the best scored city, or four weeks from now.
anchor_start_date(preds, today) ==
    IF preds # << >>
    THEN BestCity(preds)[2].best_start_date
    ELSE today + 7 * FallbackWeeks

find_optimal_start_date(data, cs, allocation, today, max_b) ==
    anchor_start_date(
        CityPredictions(PredictCalls(data, cs, allocation, today, max_b)), today)

\* current_date on entry to iteration i of the loop of _build_itinerary,
\* every stay starting on the trip's start date.
CityStartAlwaysTripStart(cs, allocation, start, i) == start

\* current_date on entry to iteration i of the loop of _build_itinerary:
\* the start date, moved on by the days of every stop before i.
RECURSIVE CityStart(_, _, _, _)
CityStart(cs, allocation, start, i) ==
    IF i = 1 THEN start
    ELSE CityStart(cs, allocation, start, i - 1) + allocation[cs[i - 1].city]

\* city_info of iteration i.  The event service is taken not to raise; its
\* fields and the generated texts are left out.
ItineraryEntry(data, cs, allocation, start, origin, today, i) ==
    LET days_in_city == allocation[cs[i].city]
        city_start == CityStart(cs, allocation, start, i)
        prediction == PredictCity(data, cs[i].city, days_in_city, today, None)
        previous_city == IF i = 1 THEN origin ELSE cs[i - 1].city
    IN IF "exception" \notin DOMAIN prediction
       THEN [ city |-> cs[i].city,
              order |-> i,
              start_date |-> city_start,
              end_date |-> city_start + days_in_city,
              days |-> days_in_city,
              coordinates |-> cs[i].coords,
              predicted_weather |->
                  [ temperature |-> prediction.predicted_temp,
                    precipitation |-> prediction.predicted_precipitation ],
              predicted_price |-> prediction.predicted_price,
              predicted_crowd |-> prediction.predicted_crowd,
              travel_score |-> prediction.travel_score,
              confidence |-> prediction.confidence,
              scores |-> prediction.scores,
              from_city |-> previous_city ]
       ELSE [ city |-> cs[i].city,
              order |-> i,
              start_date |-> city_start,
              end_date |-> city_start + days_in_city,
              days |-> days_in_city,
              coordinates |-> cs[i].coords,
              from_city |-> previous_city,
              error |-> prediction.message ]

\* _build_itinerary with the stops whose prediction failed left out of the
\* list.
build_itinerary_skipping_failed(data, cs, allocation, start, origin, today) ==
    SelectSeq([i \in DOMAIN cs |->
                  ItineraryEntry(data, cs, allocation, start, origin, today, i)],
              LAMBDA e : "error" \notin DOMAIN e)

\* _build_itinerary: one entry per stop, in the order of the list.
build_itinerary(data, cs, allocation, start, origin, today) ==
    [i \in DOMAIN cs |->
        ItineraryEntry(data, cs, allocation, start, origin, today, i)]

\* _lookup_origin_coords: the table entry of the origin, London's
\* coordinates when the table has none.
lookup_origin_coords(origin) ==
    IF origin \in CITY_COORDINATES THEN origin ELSE "london"

CentsPerKm == 15

\* The predicted price charged once per day of the stay.
HotelCostPerDay(stop) ==
    IF "predicted_price" \in DOMAIN stop
    THEN stop.predicted_price * 100 * stop.days ELSE 0

\* stop.get("predicted_price", 0), in cents
HotelCost(stop) ==
    IF "predicted_price" \in DOMAIN stop THEN stop.predicted_price * 100 ELSE 0

FlightDetail(from, to, distance) ==
    [ from |-> from, to |-> to, distance_km |-> distance,
      cost |-> distance * CentsPerKm ]

\* _calculate_trip_costs, amounts in cents.  The per-label "breakdown" dict
\* is left out.
calculate_trip_costs(itin, origin) ==
    LET total_hotel == SumSeq([i \in DOMAIN itin |-> HotelCost(itin[i])])
        between == [i \in 1 .. (Len(itin) - 1) |->
                       FlightDetail(itin[i].city, itin[i + 1].city,
                                    calculate_distance(itin[i].coordinates,
                                                       itin[i + 1].coordinates))]
        home == IF itin = << >> THEN << >>
                ELSE << FlightDetail(itin[Len(itin)].city, origin,
                                     calculate_distance(itin[Len(itin)].coordinates,
                                                        lookup_origin_coords(origin))) >>
        detailed_flights == between \o home
        total_flights == SumSeq(Col(detailed_flights, "cost"))
    IN [ total_hotel |-> total_hotel,
         total_flights |-> total_flights,
         total_cost |-> total_hotel + total_flights,
         per_person |-> (total_hotel + total_flights) \div 2,
         flights |-> detailed_flights ]

\* _calculate_overall_score with the weights taken over the days of the
\* scored stops only.
calculate_overall_score_scored_days(itin) ==
    LET scored == SelectSeq(itin, LAMBDA stop : "travel_score" \in DOMAIN stop)
        scores == Col(scored, "travel_score")
        scored_days == SumSeq(Col(scored, "days"))
    IN IF scores = << >>
       THEN [ overall |-> 500000, average |-> 500000, min |-> 500000,
              max |-> 500000 ]
       ELSE [ overall |->
                  Round2(SumSeq([i \in DOMAIN scored |->
                                    scored[i].travel_score * scored[i].days])
                            \div scored_days),
              average |-> Round2(SumSeq(scores) \div Len(scores)),
              min |-> Round2(SeqMin(scores)),
              max |-> Round2(SeqMax(scores)) ]

\* _calculate_overall_score.  total_days is the sum of the days of every
\* stop of the itinerary, those without a travel_score included.
calculate_overall_score(itin) ==
    LET scored == SelectSeq(itin, LAMBDA stop : "travel_score" \in DOMAIN stop)
        scores == Col(scored, "travel_score")
        itinerary_days == SumSeq(Col(itin, "days"))
    IN IF scores = << >>
       THEN [ overall |-> 500000, average |-> 500000, min |-> 500000,
              max |-> 500000 ]
       ELSE [ overall |->
                  Round2(SumSeq([i \in DOMAIN scored |->
                                    scored[i].travel_score * scored[i].days])
                            \div itinerary_days),
              average |-> Round2(SumSeq(scores) \div Len(scores)),
              min |-> Round2(SeqMin(scores)),
              max |-> Round2(SeqMax(scores)) ]

(***************************************************************************)
(* PriceService.normalize_price_score, CrowdService.normalize_crowd_score   *)
(***************************************************************************)
NaN == << >>
Num(v) == << v >>
IsNaN(x) == x = << >>

\* 100 * (1 - (price - min) / (max - min)), unguarded: on a constant column
\* the quotient is 0 / 0, which pandas evaluates to NaN in every row.
normalize_price_score(df) ==
    LET min_price == SeqMin(Col(df, "avg_price"))
        max_price == SeqMax(Col(df, "avg_price"))
    IN [i \in DOMAIN df |->
           [ avg_price |-> df[i].avg_price,
             price_score |->
                 IF max_price - min_price = 0 THEN NaN
                 ELSE Num(1000000 - ((df[i].avg_price - min_price) * 1000000)
                                     \div (max_price - min_price)) ]]

normalize_crowd_score(df) ==
    LET min_crowd == SeqMin(Col(df, "crowd_level"))
        max_crowd == SeqMax(Col(df, "crowd_level"))
    IN [i \in DOMAIN df |->
           [ crowd_level |-> df[i].crowd_level,
             crowd_score |->
                 IF max_crowd = min_crowd THEN Num(500000)
                 ELSE Num(1000000 - ((df[i].crowd_level - min_crowd) * 1000000)
                                     \div (max_crowd - min_crowd)) ]]

(***************************************************************************)
(* ForecastService._aggregate_weekly                                        *)
(* Day 0 is a Monday, so the Sundays are the days 6, 13, 20, ...  A daily   *)
(* row holds date, avg_price (NaN when the price service had none),         *)
(* temp_avg, precipitation and crowd_level; prices are whole dollars and    *)
(* means are taken to the whole unit.                                        *)
(***************************************************************************)
\* resample("W"): a day falls in the week that ends on the next Sunday.
WeekEnd(date) == 7 * (date \div 7) + 6

\* Series.mean() skips NaN and is NaN when nothing is left.
NanMean(xs) ==
    LET present == SelectSeq(xs, LAMBDA x : ~IsNaN(x))
    IN IF present = << >>
       THEN NaN
       ELSE Num(SumSeq([i \in DOMAIN present |-> Val(present[i])]) \div Len(present))

\* One row per week from the first to the last week with data: mean price,
\* mean temperature, summed precipitation, mean crowd level.
resample_weekly(daily) ==
    IF daily = << >>
    THEN << >>
    ELSE LET ends == { WeekEnd(daily[i].date) : i \in DOMAIN daily }
             first == CHOOSE e \in ends : \A f \in ends : e <= f
             last == CHOOSE e \in ends : \A f \in ends : e >= f
             days(e) == SelectSeq(daily, LAMBDA r : WeekEnd(r.date) = e)
             week(e) ==
                 [ date |-> e,
                   avg_price |-> NanMean(Col(days(e), "avg_price")),
                   temp_avg |-> NanMean([i \in DOMAIN days(e) |-> Num(days(e)[i].temp_avg)]),
                   precipitation |-> SumSeq(Col(days(e), "precipitation")),
                   crowd_index |-> NanMean([i \in DOMAIN days(e) |-> Num(days(e)[i].crowd_level)]) ]
         IN [k \in 1 .. ((last - first) \div 7 + 1) |-> week(first + 7 * (k - 1))]

\* DataFrame.dropna(): rows with a NaN in any column go.
dropna(weekly) ==
    SelectSeq(weekly, LAMBDA r : /\ ~IsNaN(r.avg_price)
                                 /\ ~IsNaN(r.temp_avg)
                                 /\ ~IsNaN(r.crowd_index))

\* The baseline week built from the daily data when no week is left.
baseline_week(daily) ==
    [ date |-> SeqMin(Col(daily, "date")),
      avg_price |-> NanMean(Col(daily, "avg_price")),
      temp_avg |-> NanMean([i \in DOMAIN daily |-> Num(daily[i].temp_avg)]),
      precipitation |-> SumSeq(Col(daily, "precipitation")),
      crowd_index |-> NanMean([i \in DOMAIN daily |-> Num(daily[i].crowd_level)]) ]

\* x += d on a value that may be NaN.
NanAdd(x, d) == IF IsNaN(x) THEN NaN ELSE Num(Val(x) + d)

\* A copy of the last row one week later, each column moved by the drawn
\* perturbation << price, temperature, precipitation, crowd >>.
synthetic_week(last, delta) ==
    [ date |-> last.date + 7,
      avg_price |-> NanAdd(last.avg_price, delta[1]),
      temp_avg |-> NanAdd(last.temp_avg, delta[2]),
      precipitation |-> last.precipitation + delta[3],
      crowd_index |-> NanAdd(last.crowd_index, delta[4]) ]

\* The number of weeks the synthetic extension stops at.
TrainingWeeks == 8

\* while len(df_weekly) < 8: append a synthetic week.
RECURSIVE extend_weeks(_, _)
extend_weeks(weekly, deltas) ==
    IF Len(weekly) < TrainingWeeks
    THEN extend_weeks(Append(weekly, synthetic_week(weekly[Len(weekly)], Head(deltas))),
                      Tail(deltas))
    ELSE weekly

\* Synthetic weeks for every table shorter than TrainingWeeks.
NeedsSyntheticBelowTraining(n) == n < TrainingWeeks

\* if len(df_weekly) < 2: the branch that synthesises weeks.
NeedsSynthetic(n) == n < 2

\* How many random perturbations one call draws.
SyntheticCount(daily) ==
    LET n == Len(dropna(resample_weekly(daily)))
    IN IF NeedsSynthetic(n) THEN TrainingWeeks - Max(n, 1) ELSE 0

aggregate_weekly(daily, deltas) ==
    LET df_weekly == dropna(resample_weekly(daily))
    IN IF NeedsSynthetic(Len(df_weekly))
       THEN extend_weeks(IF Len(df_weekly) = 0
                         THEN << baseline_week(daily) >>
                         ELSE df_weekly,
                         deltas)
       ELSE df_weekly

(***************************************************************************)
(* Inputs                                                                   *)
(***************************************************************************)
MaxAllocStops == 3
MaxRouteStops == 4

SeqsUpTo(S, n) == UNION { [1 .. k -> S] : k \in 1 .. n }

MinDaysChoices == {1, 2}
MaxDaysChoices == {1, 3, 5}
PreferredChoices == {None, Some(4)}
TotalDaysChoices == 1 .. 12
AllocNames == << "paris", "rome", "tokyo", "barcelona", "london" >>

\* Lists of stops with pairwise distinct names (the i-th stop is AllocNames[i])
\* and every combination of min_days, max_days and preferred_days.
AllocInputs ==
    UNION { { [i \in 1 .. k |-> CityStop(AllocNames[i], m[i][1], m[i][2], m[i][3])] :
              m \in [1 .. k -> MinDaysChoices \X MaxDaysChoices \X PreferredChoices] } :
            k \in 1 .. MaxAllocStops }

RouteStop(c) == CityStop(c, 2, 7, None)
RouteInputs ==
    { [i \in DOMAIN s |-> RouteStop(s[i])] : s \in SeqsUpTo(CITY_COORDINATES, MaxRouteStops) }

\* Lists too long for the exhaustive search, and the lists of no stop and of
\* one stop.
MaxGreedyStops == 7
GreedyInputs ==
    { [i \in DOMAIN s |-> RouteStop(s[i])] :
        s \in UNION { [1 .. k -> CITY_COORDINATES] :
                        k \in {0, 1} \cup ((ExhaustiveLimit + 1) .. MaxGreedyStops) } }

MaxWeeks == 3
MaxConfRows == 4
MaxSeriesLen == 3

ForecastRow(date, price, temp, precip, crowd) ==
    [ date |-> date, price_hat |-> price, temp_hat |-> temp,
      precip_hat |-> precip, crowd_hat |-> crowd ]

\* Weekly profiles << price, temperature, precipitation, crowd >> as the
\* merged Prophet forecasts may hold them, values outside the plausible
\* ranges included.
ForecastProfiles ==
    { << 250, 22, 0, 20 >>,
      << 300, 22, 0, 20 >>,
      << 300, 22, 50, 20 >>,
      << 120, 10, 50, 60 >>,
      << 2500, 0 - 30, 250, 120 >>,
      << 50, 50, 0 - 5, 0 - 10 >> }

\* Weekly series: row i is dated day 7 * i.
SeriesOver(profiles, lo, hi) ==
    UNION { { [i \in 1 .. k |-> ForecastRow(7 * i, s[i][1], s[i][2], s[i][3], s[i][4])] :
              s \in [1 .. k -> profiles] } : k \in lo .. hi }

\* Series of equal weather and crowd in every week: a week at 2000 and a
\* week at 100 dollars, then 2..MaxLowestPriceWeeks weeks at 105 or 106.
MaxLowestPriceWeeks == 6
LowestPriceInputs ==
    UNION { { [i \in 1 .. (k + 2) |->
                 ForecastRow(7 * i,
                             IF i = 1 THEN 2000 ELSE IF i = 2 THEN 100 ELSE prices[i - 2],
                             22, 0, 20)] :
              prices \in [1 .. k -> {105, 106}] } : k \in 2 .. MaxLowestPriceWeeks }

ForecastInputs == SeriesOver(ForecastProfiles, 2, MaxWeeks) \cup LowestPriceInputs
TripDaysChoices == {7, 14}
BudgetChoices == {None, Some(130), Some(250)}

\* "Today" falls three days before row k, so that rows k.. are the future
\* ones; with k = Len + 1 no row is.
NowChoices(raw) == { 7 * k - 3 : k \in 1 .. (Len(raw) + 1) }

ConfScoreChoices == {0, 300000, 500000, 1000000}
ConfInputs ==
    UNION { [1 .. k -> { [rolling_score |-> x] : x \in ConfScoreChoices }] :
            k \in 0 .. MaxConfRows }
ConfWindows ==
    { [error |-> "No periods found within budget", travel_score |-> 1000000],
      [error |-> "No future dates available"] }
    \cup { [travel_score |-> b] : b \in ConfScoreChoices }
    \cup { [best_week |-> 7] }

NormPairs == {200, 300} \X {20, 50}
NormInputs == SeqsUpTo(NormPairs, MaxSeriesLen)

MaxPlanStops == 3
PlanToday == 10

PlanStops ==
    { CityStop("paris", 2, 5, None),
      CityStop("rome", 1, 3, Some(4)),
      CityStop("tokyo", 3, 7, None) }
PlanInputs == SeqsUpTo(PlanStops, MaxPlanStops)
PlanTotalDays == {2, 6, 12}
\* "berlin" has no entry in CITY_COORDINATES.
PlanOrigins == {"london", "berlin"}
PlanStartDates == {None, Some(35)}
PlanBudgets == {None, Some(600), Some(4000)}

Unavailable == << >>
CheapSeries ==
    << ForecastRow(7, 150, 20, 10, 30),
       ForecastRow(14, 200, 22, 0, 20),
       ForecastRow(21, 260, 25, 5, 50) >>
DearSeries ==
    << ForecastRow(7, 400, 18, 20, 60),
       ForecastRow(14, 900, 15, 30, 70),
       ForecastRow(21, 1200, 22, 0, 40) >>
\* The weeks of CheapSeries with the two future ones exchanged: the same best
\* score a week later.
LateCheapSeries ==
    << ForecastRow(7, 150, 20, 10, 30),
       ForecastRow(14, 260, 25, 5, 50),
       ForecastRow(21, 200, 22, 0, 20) >>
CityDataChoices == {Unavailable, CheapSeries, DearSeries}
\* The forecast data of each city of a plan: any of the three choices per
\* city, or cheap data everywhere, its best week early in paris and late in
\* the other cities.
PlanCityData(names) ==
    [names -> CityDataChoices]
        \cup { [c \in names |-> IF c = "paris" THEN CheapSeries
                                ELSE LateCheapSeries] }

IdlePlan ==
    /\ origin_city = "london"
    /\ start_date = None
    /\ optimize_route = TRUE
    /\ max_budget = None
    /\ city_data = << >>
    /\ route = << >>
    /\ day_allocation = << >>
    /\ trip_start = None
    /\ itinerary = << >>
    /\ cost_breakdown = << >>
    /\ outcome = NoOutcome
    /\ overall_score = << >>
    /\ city_predictions = << >>
    /\ predict_calls = << >>
    /\ steps = {}

IdleForecast ==
    /\ now = 0
    /\ raw_forecast = << >>
    /\ trip_days = 0
    /\ fc_max_budget = None
    /\ fpc = "idle"
    /\ forecast_df = << >>
    /\ scored_df = << >>
    /\ predictions_df = << >>
    /\ best_window = << >>
    /\ confidence = 0
    /\ validated_window = << >>
    /\ output = << >>

\* Daily histories: MaxHistoryDays or fewer consecutive days from any day of
\* the week with a price on every day, MaxUnpricedDays or fewer with none.
MaxHistoryDays == 57
MaxUnpricedDays == 9
DailyRow(date, priced) ==
    [ date |-> date,
      avg_price |-> IF priced THEN Num(200 + 10 * (date % 7)) ELSE NaN,
      temp_avg |-> 20,
      precipitation |-> 1,
      crowd_level |-> 50 ]

DailyInputs ==
    { [i \in 1 .. n |-> DailyRow(first + i - 1, TRUE)] :
        first \in 0 .. 6, n \in 1 .. MaxHistoryDays }
    \cup { [i \in 1 .. n |-> DailyRow(first + i - 1, FALSE)] :
              first \in 0 .. 6, n \in 1 .. MaxUnpricedDays }

\* np.random.uniform(-50, 50), (-2, 2), (-5, 5), (-10, 10): both ends.
Perturbations == { << 0 - 50, 0 - 2, 0 - 5, 0 - 10 >>, << 50, 2, 5, 10 >> }

IdleWeekly ==
    /\ wpc = "idle"
    /\ daily_df = << >>
    /\ weekly_df = << >>

IdleNorm ==
    /\ npc = "idle"
    /\ price_df = << >>
    /\ crowd_df = << >>

(***************************************************************************)
(* _allocate_days applied to drawn inputs                                   *)
(***************************************************************************)
InitAlloc ==
    /\ cities \in AllocInputs
    /\ total_days \in TotalDaysChoices
    /\ pc = "allocate_call"
    /\ IdlePlan
    /\ IdleForecast
    /\ IdleNorm
    /\ IdleWeekly

AllocateDays ==
    /\ pc = "allocate_call"
    /\ day_allocation' = allocate_days(cities, total_days)
    /\ pc' = "allocate_done"
    /\ UNCHANGED << origin_city, cities, total_days, start_date, optimize_route,
                    max_budget, city_data, route, trip_start, itinerary, cost_breakdown,
                    outcome, steps >>
    /\ UNCHANGED << overall_score, city_predictions, predict_calls >>
    /\ UNCHANGED << fcVars, normVars, weeklyVars >>

SpecAlloc == InitAlloc /\ [][AllocateDays]_vars

(***************************************************************************)
(* _optimize_route applied to drawn inputs                                  *)
(***************************************************************************)
InitRoute ==
    /\ cities \in RouteInputs
    /\ total_days = 0
    /\ pc = "route_call"
    /\ IdlePlan
    /\ IdleForecast
    /\ IdleNorm
    /\ IdleWeekly

OptimizeRoute ==
    /\ pc = "route_call"
    /\ route' = optimize_route_fn(cities)
    /\ pc' = "route_done"
    /\ UNCHANGED << origin_city, cities, total_days, start_date, optimize_route,
                    max_budget, city_data, day_allocation, trip_start, itinerary,
                    cost_breakdown, outcome, steps >>
    /\ UNCHANGED << overall_score, city_predictions, predict_calls >>
    /\ UNCHANGED << fcVars, normVars, weeklyVars >>

SpecRoute == InitRoute /\ [][OptimizeRoute]_vars

InitGreedy ==
    /\ cities \in GreedyInputs
    /\ total_days = 0
    /\ pc = "route_call"
    /\ IdlePlan
    /\ IdleForecast
    /\ IdleNorm
    /\ IdleWeekly

SpecGreedy == InitGreedy /\ [][OptimizeRoute]_vars

(***************************************************************************)
(* predict_best_time, step by step, on drawn forecasts                      *)
(***************************************************************************)
InitForecast ==
    /\ raw_forecast \in ForecastInputs
    /\ now \in NowChoices(raw_forecast)
    /\ trip_days \in TripDaysChoices
    /\ fc_max_budget \in BudgetChoices
    /\ fpc = "forecast"
    /\ forecast_df = << >>
    /\ scored_df = << >>
    /\ predictions_df = << >>
    /\ best_window = << >>
    /\ confidence = 0
    /\ validated_window = << >>
    /\ output = << >>
    /\ pc = "idle"
    /\ cities = << >>
    /\ total_days = 0
    /\ IdlePlan
    /\ IdleNorm
    /\ IdleWeekly

\* train_forecast_models, line 328: the merged forecasts are bounded.
ApplyBoundsValidation ==
    /\ fpc = "forecast"
    /\ forecast_df' = apply_bounds_validation(raw_forecast)
    /\ fpc' = "score"
    /\ UNCHANGED << now, raw_forecast, trip_days, fc_max_budget, scored_df,
                    predictions_df, best_window, confidence, validated_window,
                    output >>
    /\ UNCHANGED << planVars, normVars, weeklyVars >>

CalculateTravelScores ==
    /\ fpc = "score"
    /\ scored_df' = calculate_travel_scores(forecast_df)
    /\ fpc' = "find"
    /\ UNCHANGED << now, raw_forecast, trip_days, fc_max_budget, forecast_df,
                    predictions_df, best_window, confidence, validated_window,
                    output >>
    /\ UNCHANGED << planVars, normVars, weeklyVars >>

FindBestTravelWindow ==
    /\ fpc = "find"
    /\ LET found == find_best_travel_window(scored_df, trip_days, now, fc_max_budget)
       IN /\ predictions_df' = found.df
          /\ best_window' = found.best_window
    /\ fpc' = "found"
    /\ UNCHANGED << now, raw_forecast, trip_days, fc_max_budget, forecast_df,
                    scored_df, confidence, validated_window, output >>
    /\ UNCHANGED << planVars, normVars, weeklyVars >>

\* predict_best_time, lines 125-129
RaiseOnError ==
    /\ fpc = "found"
    /\ "error" \in DOMAIN best_window
    /\ output' = RaisedFor(best_window)
    /\ fpc' = "raised"
    /\ UNCHANGED << now, raw_forecast, trip_days, fc_max_budget, forecast_df,
                    scored_df, predictions_df, best_window, confidence,
                    validated_window >>
    /\ UNCHANGED << planVars, normVars, weeklyVars >>

\* predict_best_time, line 132
CalculateConfidence ==
    /\ fpc = "found"
    /\ "error" \notin DOMAIN best_window
    /\ confidence' = calculate_confidence(predictions_df, best_window)
    /\ fpc' = "validate"
    /\ UNCHANGED << now, raw_forecast, trip_days, fc_max_budget, forecast_df,
                    scored_df, predictions_df, best_window, validated_window,
                    output >>
    /\ UNCHANGED << planVars, normVars, weeklyVars >>

\* predict_best_time, line 133
ValidatePredictions ==
    /\ fpc = "validate"
    /\ validated_window' = validate_predictions(best_window)
    /\ fpc' = "structure"
    /\ UNCHANGED << now, raw_forecast, trip_days, fc_max_budget, forecast_df,
                    scored_df, predictions_df, best_window, confidence, output >>
    /\ UNCHANGED << planVars, normVars, weeklyVars >>

\* predict_best_time, lines 143-176
StructureOutput ==
    /\ fpc = "structure"
    /\ output' = structure_output(validated_window, confidence, trip_days)
    /\ fpc' = "returned"
    /\ UNCHANGED << now, raw_forecast, trip_days, fc_max_budget, forecast_df,
                    scored_df, predictions_df, best_window, confidence,
                    validated_window >>
    /\ UNCHANGED << planVars, normVars, weeklyVars >>

NextForecast ==
    \/ ApplyBoundsValidation
    \/ CalculateTravelScores
    \/ FindBestTravelWindow
    \/ RaiseOnError
    \/ CalculateConfidence
    \/ ValidatePredictions
    \/ StructureOutput

SpecForecast == InitForecast /\ [][NextForecast]_vars

(***************************************************************************)
(* calculate_confidence applied to drawn inputs                             *)
(***************************************************************************)
InitConf ==
    /\ predictions_df \in ConfInputs
    /\ best_window \in ConfWindows
    /\ fpc = "confidence_call"
    /\ now = 0
    /\ raw_forecast = << >>
    /\ trip_days = 0
    /\ fc_max_budget = None
    /\ forecast_df = << >>
    /\ scored_df = << >>
    /\ confidence = 0
    /\ validated_window = << >>
    /\ output = << >>
    /\ pc = "idle"
    /\ cities = << >>
    /\ total_days = 0
    /\ IdlePlan
    /\ IdleNorm
    /\ IdleWeekly

ConfidenceCall ==
    /\ fpc = "confidence_call"
    /\ confidence' = calculate_confidence(predictions_df, best_window)
    /\ fpc' = "confidence_done"
    /\ UNCHANGED << now, raw_forecast, trip_days, fc_max_budget, forecast_df,
                    scored_df, predictions_df, best_window, validated_window,
                    output >>
    /\ UNCHANGED << planVars, normVars, weeklyVars >>

SpecConf == InitConf /\ [][ConfidenceCall]_vars

(***************************************************************************)
(* The min-max-invert normalisations applied to drawn series                *)
(***************************************************************************)
InitNorm ==
    /\ \E s \in NormInputs :
          /\ price_df = [i \in DOMAIN s |-> [avg_price |-> s[i][1]]]
          /\ crowd_df = [i \in DOMAIN s |-> [crowd_level |-> s[i][2]]]
          /\ raw_forecast = [i \in DOMAIN s |->
                                ForecastRow(7 * i, s[i][1], 22, 0, s[i][2])]
    /\ npc = "call"
    /\ fpc = "forecast"
    /\ now = 0
    /\ trip_days = 7
    /\ fc_max_budget = None
    /\ forecast_df = << >>
    /\ scored_df = << >>
    /\ predictions_df = << >>
    /\ best_window = << >>
    /\ confidence = 0
    /\ validated_window = << >>
    /\ output = << >>
    /\ pc = "idle"
    /\ cities = << >>
    /\ total_days = 0
    /\ IdlePlan
    /\ IdleWeekly

NormalizePriceScore ==
    /\ npc \in {"call", "crowd_done"}
    /\ price_df' = normalize_price_score(price_df)
    /\ npc' = IF npc = "call" THEN "price_done" ELSE "both_done"
    /\ UNCHANGED crowd_df
    /\ UNCHANGED << planVars, fcVars, weeklyVars >>

NormalizeCrowdScore ==
    /\ npc \in {"call", "price_done"}
    /\ crowd_df' = normalize_crowd_score(crowd_df)
    /\ npc' = IF npc = "call" THEN "crowd_done" ELSE "both_done"
    /\ UNCHANGED price_df
    /\ UNCHANGED << planVars, fcVars, weeklyVars >>

NextNorm ==
    \/ NormalizePriceScore
    \/ NormalizeCrowdScore
    \/ ApplyBoundsValidation
    \/ CalculateTravelScores

SpecNorm == InitNorm /\ [][NextNorm]_vars

(***************************************************************************)
(* ForecastService._aggregate_weekly, one call                              *)
(***************************************************************************)
InitWeekly ==
    /\ daily_df \in DailyInputs
    /\ wpc = "aggregate"
    /\ weekly_df = << >>
    /\ pc = "idle"
    /\ cities = << >>
    /\ total_days = 0
    /\ IdlePlan
    /\ IdleForecast
    /\ IdleNorm

AggregateWeekly ==
    /\ wpc = "aggregate"
    /\ \E deltas \in [1 .. SyntheticCount(daily_df) -> Perturbations] :
          weekly_df' = aggregate_weekly(daily_df, deltas)
    /\ wpc' = "fit"
    /\ UNCHANGED daily_df
    /\ UNCHANGED << planVars, fcVars, normVars >>

SpecWeekly == InitWeekly /\ [][AggregateWeekly]_vars

(***************************************************************************)
(* MultiCityPlanner.plan_trip, one call, step by step                       *)
(***************************************************************************)
Init ==
    /\ origin_city \in PlanOrigins
    /\ cities \in PlanInputs
    /\ total_days \in PlanTotalDays
    /\ start_date \in PlanStartDates
    /\ optimize_route \in BOOLEAN
    /\ max_budget \in PlanBudgets
    /\ city_data \in PlanCityData(CityNames(cities))
    /\ pc = "validate"
    /\ route = << >>
    /\ day_allocation = << >>
    /\ trip_start = None
    /\ itinerary = << >>
    /\ cost_breakdown = << >>
    /\ outcome = NoOutcome
    /\ overall_score = << >>
    /\ city_predictions = << >>
    /\ predict_calls = << >>
    /\ steps = {}
    /\ now = PlanToday
    /\ raw_forecast = << >>
    /\ trip_days = 0
    /\ fc_max_budget = None
    /\ fpc = "idle"
    /\ forecast_df = << >>
    /\ scored_df = << >>
    /\ predictions_df = << >>
    /\ best_window = << >>
    /\ confidence = 0
    /\ validated_window = << >>
    /\ output = << >>
    /\ IdleNorm
    /\ IdleWeekly

callArgs == << origin_city, cities, total_days, start_date, optimize_route,
               max_budget, city_data >>

\* lines 116-122
PlanValidate ==
    /\ pc = "validate"
    /\ IF ValidationFails(cities, total_days)
       THEN /\ outcome' = Raised("ValueError", Some(min_total_days(cities)))
            /\ pc' = "done"
       ELSE /\ pc' = "optimize"
            /\ UNCHANGED outcome
    /\ UNCHANGED << callArgs, route, day_allocation, trip_start, itinerary,
                    cost_breakdown, steps >>
    /\ UNCHANGED << overall_score, city_predictions, predict_calls >>
    /\ UNCHANGED << fcVars, normVars, weeklyVars >>

\* lines 124-127
PlanOptimizeRoute ==
    /\ pc = "optimize"
    /\ IF optimize_route /\ Len(cities) > 2
       THEN /\ route' = optimize_route_fn(cities)
            /\ steps' = steps \cup {"optimize_route"}
       ELSE /\ route' = cities
            /\ UNCHANGED steps
    /\ pc' = "allocate"
    /\ UNCHANGED << callArgs, day_allocation, trip_start, itinerary,
                    cost_breakdown, outcome >>
    /\ UNCHANGED << overall_score, city_predictions, predict_calls >>
    /\ UNCHANGED << fcVars, normVars, weeklyVars >>

\* lines 129-131
PlanAllocateDays ==
    /\ pc = "allocate"
    /\ day_allocation' = allocate_days(route, total_days)
    /\ steps' = steps \cup {"allocate_days"}
    /\ pc' = "start_date"
    /\ UNCHANGED << callArgs, route, trip_start, itinerary, cost_breakdown,
                    outcome >>
    /\ UNCHANGED << overall_score, city_predictions, predict_calls >>
    /\ UNCHANGED << fcVars, normVars, weeklyVars >>

\* lines 133-138
PlanFindStartDate ==
    /\ pc = "start_date"
    /\ IF IsNone(start_date)
       THEN /\ predict_calls' = PredictCalls(city_data, route, day_allocation,
                                              now, max_budget)
            /\ city_predictions' = CityPredictions(predict_calls')
            /\ trip_start' = Some(anchor_start_date(city_predictions', now))
            /\ steps' = steps \cup {"find_start_date", "predict"}
       ELSE /\ trip_start' = start_date
            /\ UNCHANGED << steps, city_predictions, predict_calls >>
    /\ pc' = "build"
    /\ UNCHANGED << callArgs, route, day_allocation, itinerary, cost_breakdown,
                    outcome >>
    /\ UNCHANGED overall_score
    /\ UNCHANGED << fcVars, normVars, weeklyVars >>

\* lines 140-143
PlanBuildItinerary ==
    /\ pc = "build"
    /\ itinerary' = build_itinerary(city_data, route, day_allocation,
                                    Val(trip_start), origin_city, now)
    /\ steps' = steps \cup {"build_itinerary", "predict"}
    /\ pc' = "costs"
    /\ UNCHANGED << callArgs, route, day_allocation, trip_start, cost_breakdown,
                    outcome >>
    /\ UNCHANGED << overall_score, city_predictions, predict_calls >>
    /\ UNCHANGED << fcVars, normVars, weeklyVars >>

\* lines 145-146
PlanCalculateCosts ==
    /\ pc = "costs"
    /\ cost_breakdown' = calculate_trip_costs(itinerary, origin_city)
    /\ steps' = steps \cup {"calculate_costs"}
    /\ pc' = "budget_check"
    /\ UNCHANGED << callArgs, route, day_allocation, trip_start, itinerary,
                    outcome >>
    /\ UNCHANGED << overall_score, city_predictions, predict_calls >>
    /\ UNCHANGED << fcVars, normVars, weeklyVars >>

\* lines 148-153: `max_budget and cost_breakdown["grand_total"] > max_budget`.
\* Subscripting the dict with a key it does not hold raises KeyError.
PlanBudgetCheck ==
    /\ pc = "budget_check"
    /\ IF ~Truthy(max_budget)
       THEN /\ pc' = "finish"
            /\ UNCHANGED outcome
       ELSE IF "grand_total" \notin DOMAIN cost_breakdown
       THEN /\ outcome' = Raised("KeyError", None)
            /\ pc' = "done"
       ELSE IF cost_breakdown["grand_total"] > Val(max_budget) * 100
       THEN /\ outcome' = Raised("ValueError", Some(cost_breakdown["grand_total"]))
            /\ pc' = "done"
       ELSE /\ pc' = "finish"
            /\ UNCHANGED outcome
    /\ UNCHANGED << callArgs, route, day_allocation, trip_start, itinerary,
                    cost_breakdown, steps >>
    /\ UNCHANGED << overall_score, city_predictions, predict_calls >>
    /\ UNCHANGED << fcVars, normVars, weeklyVars >>

\* lines 155-189; the summary, the distance and the route details of the
\* result are not kept in the state.
PlanReturn ==
    /\ pc = "finish"
    /\ overall_score' = calculate_overall_score(itinerary)
    /\ UNCHANGED << city_predictions, predict_calls >>
    /\ outcome' = Returned
    /\ pc' = "done"
    /\ UNCHANGED << callArgs, route, day_allocation, trip_start, itinerary,
                    cost_breakdown, steps >>
    /\ UNCHANGED << fcVars, normVars, weeklyVars >>

Next ==
    \/ PlanValidate
    \/ PlanOptimizeRoute
    \/ PlanAllocateDays
    \/ PlanFindStartDate
    \/ PlanBuildItinerary
    \/ PlanCalculateCosts
    \/ PlanBudgetCheck
    \/ PlanReturn

Spec == Init /\ [][Next]_vars

(***************************************************************************)
(* Claims about _allocate_days (under SpecAlloc)                            *)
(***************************************************************************)
DistinctNames(cs) == \A i, j \in DOMAIN cs : cs[i].city = cs[j].city => i = j
MinLeMax(cs) == \A i \in DOMAIN cs : cs[i].min_days <= cs[i].max_days
SumMinDays(cs) == SumSeq([i \in DOMAIN cs |-> cs[i].min_days])
SumMaxDays(cs) == SumSeq([i \in DOMAIN cs |-> cs[i].max_days])
SumAllocated(a) == SumFun(a, DOMAIN a)

AllocCase ==
    /\ pc = "allocate_done"
    /\ DistinctNames(cities)
    /\ MinLeMax(cities)
    /\ total_days >= SumMinDays(cities)

\* C1: with distinct names, min_days <= max_days and
\* sum(min_days) <= total_days <= sum(max_days) the allocated days sum to
\* exactly total_days; and for any total_days >= sum(min_days) the sum falls
\* short of total_days only when every city is at its max_days.
C1_SumIsTotalDays ==
    AllocCase =>
        /\ total_days <= SumMaxDays(cities)
              => SumAllocated(day_allocation) = total_days
        /\ SumAllocated(day_allocation) < total_days
              => \A i \in DOMAIN cities :
                     day_allocation[cities[i].city] >= cities[i].max_days

\* C5: with distinct names, min_days <= max_days and
\* total_days >= sum(min_days), every city is allocated between its min_days
\* and its max_days, and exactly its min_days when total_days = sum(min_days).
C5_AllocationWithinMinMax ==
    AllocCase =>
        /\ \A i \in DOMAIN cities :
              /\ cities[i].min_days <= day_allocation[cities[i].city]
              /\ day_allocation[cities[i].city] <= cities[i].max_days
        /\ total_days = SumMinDays(cities)
              => \A i \in DOMAIN cities :
                     day_allocation[cities[i].city] = cities[i].min_days

\* A feasible input whose proportional share of one city was cut at its
\* max_days while another city ended strictly between its bounds.
C5_Witness ==
    /\ AllocCase
    /\ total_days > SumMinDays(cities)
    /\ \E i \in DOMAIN cities :
          /\ cities[i].min_days < cities[i].max_days
          /\ day_allocation[cities[i].city] = cities[i].max_days
          /\ IntTrunc((total_days - SumMinDays(cities)) * cities[i].preferred_days,
                      SumSeq([k \in DOMAIN cities |-> cities[k].preferred_days]))
                > cities[i].max_days - cities[i].min_days
    /\ \E j \in DOMAIN cities :
          /\ cities[j].min_days < day_allocation[cities[j].city]
          /\ day_allocation[cities[j].city] < cities[j].max_days

(***************************************************************************)
(* Claims about _optimize_route (under SpecRoute)                           *)
(***************************************************************************)
IsArrangementOf(rt, cs) ==
    /\ Len(rt) = Len(cs)
    /\ \E p \in permutations(Len(cs)) : rt = Arrange(cs, p)

\* C8: for 2 to 6 stops the returned order is a permutation of the input
\* whose open-path distance is <= that of every permutation of the input,
\* the input order included.
C8_ExhaustiveRouteIsShortest ==
    (pc = "route_done" /\ Len(cities) >= 2 /\ Len(cities) <= ExhaustiveLimit) =>
        /\ IsArrangementOf(route, cities)
        /\ \A q \in permutations(Len(cities)) :
              calculate_route_distance(route)
                 <= calculate_route_distance(Arrange(cities, q))

\* An input of at least three stops whose given order is not the shortest:
\* the search returned a strictly shorter, different order.
C8_Witness ==
    /\ pc = "route_done"
    /\ Len(cities) >= 3
    /\ Len(cities) <= ExhaustiveLimit
    /\ DistinctNames(cities)
    /\ route # cities
    /\ calculate_route_distance(route) < calculate_route_distance(cities)

(***************************************************************************)
(* Claims about plan_trip (under Spec)                                      *)
(***************************************************************************)
\* C2: a call with a max_budget whose costs were computed ends with a
\* ValueError quoting the realized total cost exactly when that total
\* exceeds max_budget, and returns the plan when the total is within it.
C2_BudgetErrorIffCostExceeds ==
    (pc = "done" /\ ~IsNone(max_budget) /\ "calculate_costs" \in steps) =>
        IF cost_breakdown.total_cost > Val(max_budget) * 100
        THEN /\ outcome.status = "raised"
             /\ outcome.exception = "ValueError"
             /\ outcome.quoted = Some(cost_breakdown.total_cost)
        ELSE outcome.status = "returned"

\* C6: a call with total_days < sum(min_days) never performs a route
\* optimisation, a day allocation, a start-date search or a prediction, and
\* ends with a ValueError.
C6_FailFastOnTooFewDays ==
    total_days < SumMinDays(cities) =>
        /\ pc \in {"validate", "done"}
        /\ steps = {}
        /\ route = << >>
        /\ day_allocation = << >>
        /\ trip_start = None
        /\ itinerary = << >>
        /\ pc = "done" => /\ outcome.status = "raised"
                          /\ outcome.exception = "ValueError"

\* A call of several stops, short of days by one stop's minimum or more,
\* that has ended with the ValueError.
C6_Witness ==
    /\ pc = "done"
    /\ Len(cities) >= 2
    /\ total_days < SumMinDays(cities)
    /\ outcome = Raised("ValueError", Some(SumMinDays(cities)))
    /\ steps = {}

(***************************************************************************)
(* Claims about predict_best_time (under SpecForecast)                      *)
(***************************************************************************)
WindowFound == fpc \notin {"forecast", "score", "find"}

Affordable(df, today, budget) ==
    { i \in DOMAIN df : df[i].date >= today /\ df[i].price_hat <= budget }

\* C3: with a max_budget and at least one future week, the result is an
\* error carrying the minimum price_hat of the whole series if and only if
\* no future week has price_hat <= max_budget; otherwise the best window is
\* one of the future weeks with price_hat <= max_budget.
C3_BudgetErrorIffNoFutureWeekWithin ==
    (/\ WindowFound
     /\ ~IsNone(fc_max_budget)
     /\ \E i \in DOMAIN scored_df : scored_df[i].date >= now) =>
        LET within == Affordable(scored_df, now, Val(fc_max_budget))
        IN IF within = {}
           THEN /\ "error" \in DOMAIN best_window
                /\ "min_price" \in DOMAIN best_window
                /\ \E i \in DOMAIN scored_df :
                      best_window.min_price = scored_df[i].price_hat
                /\ \A i \in DOMAIN scored_df :
                      best_window.min_price <= scored_df[i].price_hat
           ELSE /\ "error" \notin DOMAIN best_window
                /\ best_window.price <= Val(fc_max_budget)
                /\ \E i \in within :
                      /\ best_window.best_week = scored_df[i].date
                      /\ best_window.price = scored_df[i].price_hat

\* The budget error on a series whose cheapest week is within the budget
\* but lies in the past: every future week costs more.
C3_Witness ==
    /\ WindowFound
    /\ ~IsNone(fc_max_budget)
    /\ \E i \in DOMAIN scored_df : scored_df[i].date >= now
    /\ "error" \in DOMAIN best_window
    /\ "min_price" \in DOMAIN best_window
    /\ best_window.min_price <= Val(fc_max_budget)

\* C4: a result returned for a call with a max_budget has
\* predicted_price <= max_budget.
C4_PredictedPriceWithinBudget ==
    (fpc = "returned" /\ ~IsNone(fc_max_budget)) =>
        output.predicted_price <= Val(fc_max_budget)

WeightedSum(price_score, weather_score, crowd_score) ==
    (40 * price_score + 30 * weather_score + 30 * crowd_score) \div 100

OwnWeightedSum(window) ==
    WeightedSum(window.price_score, window.weather_score, window.crowd_score)

\* C7 as stated: every scored row, and the best window returned for any
\* trip_days, has travel_score equal to 0.40 * price_score +
\* 0.30 * weather_score + 0.30 * crowd_score of itself, up to the rounding of
\* the returned scores (a tenth of a point).
C7_TravelScoreIsWeightedSum ==
    /\ fpc \notin {"forecast", "score"} =>
          \A i \in DOMAIN scored_df :
              scored_df[i].travel_score
                 = WeightedSum(scored_df[i].price_score,
                               scored_df[i].weather_score,
                               scored_df[i].crowd_score)
    /\ (WindowFound /\ "error" \notin DOMAIN best_window) =>
          Abs(best_window.travel_score - OwnWeightedSum(best_window)) <= 1000

\* C7, amended: every scored row has travel_score equal to the weighted sum
\* of its own scores; the best window reports the mean of the travel_score
\* of its week and of the max(1, trip_days // 7) - 1 candidate weeks before
\* it (future weeks within the budget, in date order), rounded to two
\* decimals, which is the weighted
\* sum of the window's own scores, up to rounding, when trip_days < 14.
C7_TravelScoreIsWeightedSumOrRollingMean ==
    /\ fpc \notin {"forecast", "score"} =>
          \A i \in DOMAIN scored_df :
              scored_df[i].travel_score
                 = WeightedSum(scored_df[i].price_score,
                               scored_df[i].weather_score,
                               scored_df[i].crowd_score)
    /\ (WindowFound /\ "error" \notin DOMAIN best_window) =>
          LET cand == SelectSeq(scored_df,
                         LAMBDA r : /\ r.date >= now
                                    /\ \/ IsNone(fc_max_budget)
                                       \/ r.price_hat <= Val(fc_max_budget))
              k == CHOOSE i \in DOMAIN cand : cand[i].date = best_window.best_week
              w == IF trip_days \div 7 > 1 THEN trip_days \div 7 ELSE 1
              first == IF k - w + 1 > 1 THEN k - w + 1 ELSE 1
              weeks == k - first + 1
          IN /\ \E i \in DOMAIN cand : cand[i].date = best_window.best_week
             /\ best_window.travel_score
                  = Round2(SumSeq([j \in 1 .. weeks |->
                                      cand[first + j - 1].travel_score])
                              \div weeks)
             /\ trip_days < 14 =>
                  Abs(best_window.travel_score - OwnWeightedSum(best_window)) <= 1000

\* A two-week trip whose best window reports a travel_score more than a
\* point away from the weighted sum of the window's own scores.
C7_Witness ==
    /\ WindowFound
    /\ "error" \notin DOMAIN best_window
    /\ trip_days = 14
    /\ Abs(best_window.travel_score - OwnWeightedSum(best_window)) > 10000

(***************************************************************************)
(* Claims about the normalisations (under SpecNorm)                         *)
(***************************************************************************)
ConstantColumn(df, f) == \A i, j \in DOMAIN df : df[i][f] = df[j][f]

NormalisedOk(df, f, score) ==
    \A i \in DOMAIN df :
        /\ ~IsNaN(df[i][score])
        /\ Val(df[i][score]) >= 0
        /\ Val(df[i][score]) <= 1000000
        /\ ConstantColumn(df, f) => Val(df[i][score]) = 500000

\* C9: each min-max-invert normalisation yields only scores in [0, 100], and
\* 50.0 in every entry when the values of the series are all equal:
\* PriceService.normalize_price_score, CrowdService.normalize_crowd_score,
\* and price_score and crowd_score of calculate_travel_scores.
C9_NormalisedScoresInRange ==
    /\ npc \in {"price_done", "both_done"}
          => NormalisedOk(price_df, "avg_price", "price_score")
    /\ npc \in {"crowd_done", "both_done"}
          => NormalisedOk(crowd_df, "crowd_level", "crowd_score")
    /\ fpc = "find" =>
          \A i \in DOMAIN scored_df :
              /\ scored_df[i].price_score \in 0 .. 1000000
              /\ scored_df[i].crowd_score \in 0 .. 1000000
              /\ ConstantColumn(scored_df, "price_hat")
                    => scored_df[i].price_score = 500000
              /\ ConstantColumn(scored_df, "crowd_hat")
                    => scored_df[i].crowd_score = 500000

(***************************************************************************)
(* Claims about calculate_confidence (under SpecConf)                       *)
(***************************************************************************)
\* C10: the confidence is 0.3 for a window with an error tag; otherwise 0.5
\* when there are fewer than 2 rows or all candidate scores are equal;
\* otherwise 0.5 + 0.2 * (best_score - mean) / stdev cut to [0.3, 1.0]
\* (checked to two thousandths); in every case it lies in [0.3, 1.0].
C10_ConfidenceCasesAndBounds ==
    fpc = "confidence_done" =>
        LET xs == Col(predictions_df, "rolling_score")
            best == IF "travel_score" \in DOMAIN best_window
                    THEN best_window.travel_score ELSE 500000
        IN /\ confidence >= 300
           /\ confidence <= 1000
           /\ IF "error" \in DOMAIN best_window THEN confidence = 300
              ELSE IF Len(xs) < 2 THEN confidence = 500
              ELSE IF \A i, j \in DOMAIN xs : xs[i] = xs[j] THEN confidence = 500
              ELSE Abs(confidence
                       - Clip(500 + (200 * (best - MeanScore(xs))) \div StdScore(xs),
                              300, 1000)) <= 2

\* Rows of unequal scores and a best score above their mean, but by less
\* than 2.5 standard deviations: the confidence is strictly inside the range.
C10_Witness ==
    /\ fpc = "confidence_done"
    /\ "error" \notin DOMAIN best_window
    /\ Len(predictions_df) >= 2
    /\ \E i, j \in DOMAIN predictions_df :
          predictions_df[i].rolling_score # predictions_df[j].rolling_score
    /\ confidence > 500
    /\ confidence < 1000

(***************************************************************************)
(* Claims about the itinerary of plan_trip (under Spec)                     *)
(***************************************************************************)
ItineraryBuilt == "build_itinerary" \in steps

\* C11: the itinerary has one entry per stop of the route, in route order
\* and numbered 1..n; the first stay starts on the trip's start date and
\* comes from the origin city; every later stay starts on the end date of
\* the stay before it and comes from that stay's city; every stay ends its
\* allocated days after it starts; and a start_date supplied by the caller
\* is the trip's start date.
C11_ItineraryChainsStays ==
    ItineraryBuilt =>
        /\ Len(itinerary) = Len(route)
        /\ \A i \in DOMAIN itinerary :
              /\ itinerary[i].city = route[i].city
              /\ itinerary[i].order = i
              /\ itinerary[i].days = day_allocation[route[i].city]
              /\ itinerary[i].end_date
                    = itinerary[i].start_date + day_allocation[route[i].city]
              /\ i = 1 => /\ itinerary[i].start_date = Val(trip_start)
                          /\ itinerary[i].from_city = origin_city
              /\ i > 1 => /\ itinerary[i].start_date = itinerary[i - 1].end_date
                          /\ itinerary[i].from_city = itinerary[i - 1].city
        /\ ~IsNone(start_date) => trip_start = start_date

\* A trip of three stays on a caller-supplied start date whose route was
\* reordered and whose last stay starts after the first one has ended.
C11_Witness ==
    /\ ItineraryBuilt
    /\ Len(itinerary) >= 3
    /\ ~IsNone(start_date)
    /\ route # cities
    /\ itinerary[1].start_date = Val(start_date)
    /\ itinerary[3].start_date > itinerary[1].end_date

(***************************************************************************)
(* Claims about the costs of plan_trip (under Spec)                         *)
(***************************************************************************)
CostsCalculated == "calculate_costs" \in steps

ScoredStops(itin) == { i \in DOMAIN itin : "travel_score" \in DOMAIN itin[i] }

\* C13: in a returned plan, overall is the sum over the stops that have a
\* travel_score of travel_score * days / (days of all stops of the
\* itinerary), rounded to two decimals; with no scored stop, overall,
\* average, min and max are 50.0.
C13_OverallIsDayWeighted ==
    (pc = "done" /\ outcome.status = "returned") =>
        LET all_days == SumSeq([i \in DOMAIN itinerary |-> itinerary[i].days])
            weighted == SumSeq([i \in DOMAIN itinerary |->
                                   IF i \in ScoredStops(itinerary)
                                   THEN itinerary[i].travel_score * itinerary[i].days
                                   ELSE 0])
        IN IF ScoredStops(itinerary) = {}
           THEN overall_score
                  = [ overall |-> 500000, average |-> 500000, min |-> 500000,
                      max |-> 500000 ]
           ELSE Abs(overall_score.overall * all_days - weighted) <= 51 * all_days

\* A returned plan with a scored stop and a stop without a score, so that
\* the weights of the scored stops sum to less than one.
C13_Witness ==
    /\ pc = "done"
    /\ outcome.status = "returned"
    /\ ScoredStops(itinerary) # {}
    /\ ScoredStops(itinerary) # DOMAIN itinerary
    /\ overall_score.overall < overall_score.min

\* _build_itinerary has returned and nothing has run since.
JustBuilt == pc = "costs"

\* C14: when the prediction of a city fails while the itinerary is built,
\* the itinerary still has one entry per stop of the route; the entries of
\* that city carry an error field and the order, dates and days they would
\* have had, and every other entry is what it would have been had that
\* city's prediction succeeded.
C14_FailedCityLeavesOthersUntouched ==
    JustBuilt =>
        /\ Len(itinerary) = Len(route)
        /\ \A c \in CityNames(route) :
              city_data[c] = Unavailable =>
                 \A alt \in CityDataChoices \ {Unavailable} :
                    LET other == build_itinerary([city_data EXCEPT ![c] = alt],
                                    route, day_allocation, Val(trip_start),
                                    origin_city, now)
                    IN \A i \in DOMAIN route :
                          IF route[i].city = c
                          THEN /\ "error" \in DOMAIN itinerary[i]
                               /\ "error" \notin DOMAIN other[i]
                               /\ itinerary[i].city = c
                               /\ itinerary[i].order = other[i].order
                               /\ itinerary[i].start_date = other[i].start_date
                               /\ itinerary[i].end_date = other[i].end_date
                               /\ itinerary[i].days = other[i].days
                               /\ itinerary[i].from_city = other[i].from_city
                          ELSE itinerary[i] = other[i]

\* An itinerary whose first stop failed and whose later stop of another
\* city carries its prediction.
C14_Witness ==
    /\ JustBuilt
    /\ Len(itinerary) >= 2
    /\ "error" \in DOMAIN itinerary[1]
    /\ \E j \in 2 .. Len(itinerary) :
          /\ "predicted_price" \in DOMAIN itinerary[j]
          /\ itinerary[j].start_date = itinerary[j - 1].end_date

(***************************************************************************)
(* Claims about the coordinate lookups (under Spec)                         *)
(***************************************************************************)
LookupNames == CITY_COORDINATES \cup WEATHER_COORDINATES \cup {"berlin", "atlantis"}

\* C15: a name without a table entry is never resolved: constructing a
\* CityStop of it and fetching weather for it end with an error, and no trip
\* whose origin city has no entry gets its costs calculated.
C15_UnknownNameIsAnError ==
    /\ \A name \in LookupNames :
          name \notin CITY_COORDINATES
             => "exception" \in DOMAIN lookup_coordinates(name)
    /\ \A name \in LookupNames :
          name \notin WEATHER_COORDINATES
             => "exception" \in DOMAIN get_coordinates(name)
    /\ CostsCalculated => origin_city \in CITY_COORDINATES

(***************************************************************************)
(* Claims about CityStop (under SpecAlloc)                                  *)
(***************************************************************************)
\* C16: every constructed CityStop has min_days <= preferred_days <=
\* max_days, and preferred_days = min_days when none was supplied.
C16_PreferredWithinMinMax ==
    /\ \A i \in DOMAIN cities :
          /\ cities[i].min_days <= cities[i].preferred_days
          /\ cities[i].preferred_days <= cities[i].max_days
    /\ \A m \in MinDaysChoices, x \in MaxDaysChoices :
          CityStop("paris", m, x, None).preferred_days = m

(***************************************************************************)
(* Claims about the forecast bounds (under SpecForecast)                    *)
(***************************************************************************)
WithinForecastBounds(row) ==
    /\ 100 <= row.price_hat /\ row.price_hat <= 2000
    /\ 0 - 20 <= row.temp_hat /\ row.temp_hat <= 45
    /\ 0 <= row.precip_hat /\ row.precip_hat <= 200
    /\ 0 <= row.crowd_hat /\ row.crowd_hat <= 100

BoundsApplied == fpc \notin {"idle", "forecast"}

\* C17: after _apply_bounds_validation every forecast row has price_hat in
\* [100, 2000], temp_hat in [-20, 45], precip_hat in [0, 200] and crowd_hat
\* in [0, 100], and applying the bounds a second time changes nothing.
C17_ForecastWithinBounds ==
    BoundsApplied =>
        /\ Len(forecast_df) = Len(raw_forecast)
        /\ \A i \in DOMAIN forecast_df :
              /\ WithinForecastBounds(forecast_df[i])
              /\ forecast_df[i].date = raw_forecast[i].date
              /\ WithinForecastBounds(raw_forecast[i])
                    => forecast_df[i] = raw_forecast[i]
        /\ apply_bounds_validation(forecast_df) = forecast_df

\* A forecast with a row above the upper bounds, a row below the lower
\* ones and a row inside them has been clipped.
C17_Witness ==
    /\ BoundsApplied
    /\ \E i, j, k \in DOMAIN raw_forecast :
          /\ raw_forecast[i].price_hat > 2000 /\ raw_forecast[i].temp_hat < 0 - 20
          /\ raw_forecast[i].precip_hat > 200 /\ raw_forecast[i].crowd_hat > 100
          /\ raw_forecast[j].price_hat < 100 /\ raw_forecast[j].temp_hat > 45
          /\ raw_forecast[j].precip_hat < 0 /\ raw_forecast[j].crowd_hat < 0
          /\ WithinForecastBounds(raw_forecast[k])
          /\ forecast_df[i] # raw_forecast[i]
          /\ forecast_df[j] # raw_forecast[j]
          /\ forecast_df[k] = raw_forecast[k]

(***************************************************************************)
(* Claims about the precipitation penalty (under SpecForecast)              *)
(***************************************************************************)
Scored == Len(scored_df) > 0

\* C20: the penalty taken from a week's weather score is 20 points times the
\* week's precipitation over the largest precipitation of the series: the
\* wettest week loses 20, a dry week loses nothing, and of two weeks with
\* the same temperature the wetter one never has the higher weather_score.
C20_WetterWeekNeverScoresHigher ==
    Scored =>
        LET precip_max == SeqMax(Col(scored_df, "precip_hat"))
        IN /\ \A i \in DOMAIN scored_df :
                 precip_max > 0 =>
                    scored_df[i].precip_penalty
                       = (200000 * scored_df[i].precip_hat) \div precip_max
           /\ \A i, j \in DOMAIN scored_df :
                 /\ scored_df[i].temp_hat = scored_df[j].temp_hat
                 /\ scored_df[i].precip_hat > scored_df[j].precip_hat
                 => scored_df[i].weather_score <= scored_df[j].weather_score

(***************************************************************************)
(* Claims about the weekly table (under SpecWeekly)                         *)
(***************************************************************************)
Aggregated == wpc = "fit"
RealWeeks == dropna(resample_weekly(daily_df))

\* Rows from..Len(weekly_df) each lie one week after the row before.
OneWeekApartFrom(from) ==
    \A i \in from .. Len(weekly_df) :
        weekly_df[i].date = weekly_df[i - 1].date + 7

\* C18 as stated: the weekly table handed to model fitting always has at
\* least 8 rows; with 0 through 7 real weeks, synthetic weeks are appended
\* one week apart after the last real week until 8 are present.
C18_WeeklyTableAtLeastEightRows ==
    Aggregated =>
        /\ Len(weekly_df) >= TrainingWeeks
        /\ Len(RealWeeks) < TrainingWeeks
              => /\ Len(weekly_df) = TrainingWeeks
                 /\ OneWeekApartFrom(Max(Len(RealWeeks), 1) + 1)

\* C18 as amended: with fewer than 2 real weeks the table is extended to
\* exactly 8 rows, each synthetic row dated one week after the row before
\* it, starting from the single real week or from a baseline week dated at
\* the first day of the daily data; with 2 or more real weeks the table is
\* handed on as aggregated, so it always has at least 2 rows.
C18_WeeklyTableExtendedOnlyBelowTwoRows ==
    Aggregated =>
        /\ Len(weekly_df) >= 2
        /\ Len(RealWeeks) >= 2 => weekly_df = RealWeeks
        /\ Len(RealWeeks) < 2
              => /\ Len(weekly_df) = TrainingWeeks
                 /\ OneWeekApartFrom(2)
                 /\ Len(RealWeeks) = 1 => weekly_df[1] = RealWeeks[1]
                 /\ Len(RealWeeks) = 0
                       => weekly_df[1].date = daily_df[1].date

\* One real week has been extended by seven synthetic ones.
C18_Witness ==
    /\ Aggregated
    /\ Len(RealWeeks) = 1
    /\ Len(weekly_df) = TrainingWeeks
    /\ weekly_df[1] = RealWeeks[1]
    /\ weekly_df[TrainingWeeks].date = RealWeeks[1].date + 49
    /\ weekly_df[2].avg_price # weekly_df[3].avg_price

(***************************************************************************)
(* Claims about the lowest-price week (under SpecForecast)                  *)
(***************************************************************************)
ConfidenceComputed == fpc \in {"validate", "structure", "returned"}

\* The weeks find_best_travel_window chooses from.
CandidateWeeks ==
    SelectSeq(scored_df,
              LAMBDA r : /\ r.date >= now
                         /\ \/ IsNone(fc_max_budget)
                            \/ r.price_hat <= Val(fc_max_budget))

OnlyPricesDiffer(cand) ==
    /\ Len(cand) >= 2
    /\ \A i, j \in DOMAIN cand :
          /\ cand[i].temp_hat = cand[j].temp_hat
          /\ cand[i].precip_hat = cand[j].precip_hat
          /\ cand[i].crowd_hat = cand[j].crowd_hat
    /\ \E i, j \in DOMAIN cand : cand[i].price_hat # cand[j].price_hat

EarliestLowestPrice(cand) ==
    CHOOSE i \in DOMAIN cand :
        /\ \A j \in DOMAIN cand : cand[i].price_hat <= cand[j].price_hat
        /\ \A j \in 1 .. (i - 1) : cand[j].price_hat > cand[i].price_hat

\* The best window is the earliest candidate week of the lowest price_hat.
BestIsEarliestLowestPrice ==
    (ConfidenceComputed /\ trip_days < 14 /\ OnlyPricesDiffer(CandidateWeeks)) =>
        best_window.best_week
           = CandidateWeeks[EarliestLowestPrice(CandidateWeeks)].date

\* C19: for a trip of less than 14 days over at least two candidate weeks of
\* equal temperature, precipitation and crowd forecasts whose prices are not
\* all equal, the best window is the earliest week of the lowest price_hat
\* and its confidence is strictly above 0.5.
C19_LowestPriceWeekWinsWithConfidence ==
    (ConfidenceComputed /\ trip_days < 14 /\ OnlyPricesDiffer(CandidateWeeks)) =>
        /\ best_window.best_week
              = CandidateWeeks[EarliestLowestPrice(CandidateWeeks)].date
        /\ confidence > 500

(***************************************************************************)
(* Claims about the rolling score (under SpecForecast)                      *)
(***************************************************************************)
\* The future weeks of the forecast, in date order.
FutureWeeks == SelectSeq(scored_df, LAMBDA r : r.date >= now)

\* The position among the future weeks of the week dated `date`.
WeekIndex(date) == CHOOSE k \in DOMAIN FutureWeeks : FutureWeeks[k].date = date

\* The mean of travel_score over future week k and the up to w - 1 weeks
\* of the forecast right before it.
CalendarMean(k, w) ==
    LET first == IF k - w + 1 > 1 THEN k - w + 1 ELSE 1
    IN SumSeq([j \in 1 .. (k - first + 1) |-> FutureWeeks[first + j - 1].travel_score])
          \div (k - first + 1)

\* C21: the rolling_score of every candidate week is the mean of the
\* travel_score of that week and of the up to w - 1 calendar weeks right
\* before it in the forecast, w = max(1, trip_days // 7), with or without a
\* max_budget; with w = 1 it is the week's travel_score.
C21_RollingIsMeanOverCalendarWeeks ==
    (WindowFound /\ "error" \notin DOMAIN best_window) =>
        \A i \in DOMAIN predictions_df :
            LET row == predictions_df[i]
                w == IF trip_days \div 7 > 1 THEN trip_days \div 7 ELSE 1
            IN /\ row.rolling_score = CalendarMean(WeekIndex(row.date), w)
               /\ w = 1 => row.rolling_score = row.travel_score

\* With one week per window the rolling score is the travel score.
RollingOfOneWeekIsTravelScore ==
    (WindowFound /\ "error" \notin DOMAIN best_window /\ trip_days < 14) =>
        \A i \in DOMAIN predictions_df :
            predictions_df[i].rolling_score = predictions_df[i].travel_score

\* The positions among the candidate weeks whose travel_score went into the
\* rolling_score of the recommended week.
AveragedWeeks ==
    LET k == CHOOSE i \in DOMAIN CandidateWeeks :
                 CandidateWeeks[i].date = output.best_start_date
        w == IF trip_days \div 7 > 1 THEN trip_days \div 7 ELSE 1
        first == IF k - w + 1 > 1 THEN k - w + 1 ELSE 1
    IN first .. k

\* C22: the weeks averaged into the rolling_score of the chosen window are
\* weeks of the recommended stay: each is dated inside
\* [best_start_date, best_start_date + trip_days), whatever trip_days is.
C22_AveragedWeeksLieInStay ==
    fpc = "returned" =>
        \A j \in AveragedWeeks :
            /\ CandidateWeeks[j].date >= output.best_start_date
            /\ CandidateWeeks[j].date < output.best_start_date + trip_days

\* For a stay of less than two weeks the one averaged week is the week the
\* stay starts in.
OneWeekStayAveragesItsOwnWeek ==
    (fpc = "returned" /\ trip_days < 14) =>
        \A j \in AveragedWeeks :
            CandidateWeeks[j].date = output.best_start_date

(***************************************************************************)
(* Claims about validate_predictions (under SpecForecast)                   *)
(***************************************************************************)
Validated == fpc \in {"structure", "returned"}

\* The window's values satisfy the bounds of _apply_bounds_validation and
\* its scores lie in [0, 100].
WithinForecasterRanges(window) ==
    /\ 100 <= window.price /\ window.price <= 2000
    /\ 0 - 20 <= window.temperature /\ window.temperature <= 45
    /\ 0 <= window.precipitation /\ window.precipitation <= 200
    /\ 0 <= window.crowd_level /\ window.crowd_level <= 100
    /\ \A f \in {"travel_score", "price_score", "weather_score", "crowd_score"} :
          0 <= window[f] /\ window[f] <= 1000000

\* C23: validate_predictions returns a best window whose values satisfy the
\* forecaster's bounds with every field unchanged.
C23_ValidationKeepsBoundedWindow ==
    (Validated /\ WithinForecasterRanges(best_window)) =>
        validated_window = best_window

\* validate_predictions works on a copy: the window handed in is the same
\* after the call.
ValidationLeavesInputAlone ==
    [][ValidatePredictions => best_window' = best_window]_vars

(***************************************************************************)
(* Claims about the budget error (under SpecForecast)                       *)
(***************************************************************************)
BudgetErrorReturned == WindowFound /\ "min_price" \in DOMAIN best_window

\* C24: the min_price of a budget error is the lowest price_hat among the
\* future weeks, the weeks that were candidates, and so is strictly above
\* the max_budget that was rejected.
C24_MinPriceIsLowestCandidatePrice ==
    BudgetErrorReturned =>
        /\ best_window.min_price = SeqMin(Col(FutureWeeks, "price_hat"))
        /\ best_window.min_price > Val(fc_max_budget)

(***************************************************************************)
(* Claims about the choice of the best window (under SpecForecast)          *)
(***************************************************************************)
WindowChosen == WindowFound /\ "error" \notin DOMAIN best_window

\* C25: the best window is a candidate week (in the future and within the
\* budget) of the highest rolling_score, and of the candidate weeks sharing
\* that score it is the earliest.
C25_BestIsEarliestOfHighestRolling ==
    WindowChosen =>
        /\ { predictions_df[i].date : i \in DOMAIN predictions_df }
              = { CandidateWeeks[i].date : i \in DOMAIN CandidateWeeks }
        /\ \E b \in DOMAIN predictions_df :
              /\ predictions_df[b].date = best_window.best_week
              /\ \A i \in DOMAIN predictions_df :
                    /\ predictions_df[i].rolling_score <= predictions_df[b].rolling_score
                    /\ predictions_df[i].rolling_score = predictions_df[b].rolling_score
                          => predictions_df[i].date >= predictions_df[b].date

\* Two candidate weeks share the highest rolling_score and a third week
\* scores lower.
C25_Witness ==
    /\ WindowChosen
    /\ \E b, i, j \in DOMAIN predictions_df :
          /\ predictions_df[b].date = best_window.best_week
          /\ i # b
          /\ predictions_df[i].rolling_score = predictions_df[b].rolling_score
          /\ predictions_df[i].date > predictions_df[b].date
          /\ predictions_df[j].rolling_score < predictions_df[b].rolling_score
          /\ predictions_df[j].date < predictions_df[b].date

\* C26: in a start-date search with a max_budget over n cities, every city
\* is first predicted with the per-city budget max_budget / (n * 1.3), in
\* route order; that attempt is followed by exactly one retry with no budget
\* if and only if it failed because of the budget; and the cities that get an
\* entry in city_predictions are exactly those with a call that succeeded.
SearchDone == "find_start_date" \in steps
FirstAttempts == SelectSeq(predict_calls, LAMBDA c : ~c.retry)
Retried(k) == (k + 1) \in DOMAIN predict_calls /\ predict_calls[k + 1].retry
PredictionOf(k) ==
    city_predictions[CHOOSE i \in DOMAIN city_predictions :
                        city_predictions[i][1] = route[k].city][2]
Predicted == { k \in DOMAIN route :
                 \E i \in DOMAIN city_predictions :
                    city_predictions[i][1] = route[k].city }
C27_StartsWithFirstHighestScoringCity ==
    SearchDone =>
        IF Predicted # {}
        THEN \E k \in Predicted :
                /\ \A j \in Predicted :
                      /\ PredictionOf(j).travel_score <= PredictionOf(k).travel_score
                      /\ j < k => PredictionOf(j).travel_score
                                     < PredictionOf(k).travel_score
                /\ trip_start = Some(PredictionOf(k).best_start_date)
        ELSE trip_start = Some(now + 7 * 4)

\* Two predicted cities share the highest score but not the date.
C27_Witness ==
    /\ SearchDone
    /\ \E k \in Predicted :
          /\ trip_start = Some(PredictionOf(k).best_start_date)
          /\ \E j \in Predicted :
                /\ j > k
                /\ PredictionOf(j).travel_score = PredictionOf(k).travel_score
                /\ PredictionOf(j).best_start_date # PredictionOf(k).best_start_date

C27_FallbackWitness ==
    SearchDone /\ Predicted = {} /\ trip_start = Some(now + 7 * 4)

\* C28: for more than 6 stops the route returned by _optimize_route holds the
\* stops of the input, begins with the first input stop, and each later stop
\* is a nearest one to the stop before it among those not yet visited; for
\* no stop or one stop the input comes back unchanged.
SameStops(rt, cs) ==
    /\ Len(rt) = Len(cs)
    /\ \A i \in DOMAIN cs :
          Cardinality({ j \in DOMAIN rt : rt[j] = cs[i] })
            = Cardinality({ j \in DOMAIN cs : cs[j] = cs[i] })
RouteDone == pc = "route_done"
C28_GreedyRouteTakesNearestNext ==
    RouteDone =>
        /\ Len(cities) <= 1 => route = cities
        /\ Len(cities) > 6 =>
              /\ SameStops(route, cities)
              /\ route[1] = cities[1]
              /\ \A i \in 2 .. Len(route) : \A j \in i .. Len(route) :
                    calculate_distance(route[i - 1].coords, route[i].coords)
                      <= calculate_distance(route[i - 1].coords, route[j].coords)

C28_Witness ==
    /\ RouteDone
    /\ Len(cities) > 6
    /\ route # cities
    /\ \E i \in 2 .. Len(route) : \E j \in (i + 1) .. Len(route) :
          calculate_distance(route[i - 1].coords, route[i].coords)
            < calculate_distance(route[i - 1].coords, route[j].coords)

C28_ShortListWitness == RouteDone /\ Len(cities) = 1 /\ route = cities

\* C29: in every returned plan the days of the itinerary entries sum to
\* total_days, so the last entry ends on the plan's end_date, which is the
\* start date plus total_days.
PlanReturned == pc = "done" /\ outcome.status = "returned"
PlanEndDate == Val(trip_start) + total_days
C29_ItineraryFillsTheTrip ==
    PlanReturned =>
        /\ SumSeq([i \in DOMAIN itinerary |-> itinerary[i].days]) = total_days
        /\ itinerary[Len(itinerary)].end_date = PlanEndDate

\* C30: in every overall score record of a returned plan, also of one whose
\* itinerary has error entries, min <= overall <= max.
C30_OverallBetweenMinAndMax ==
    PlanReturned =>
        /\ overall_score.min <= overall_score.overall
        /\ overall_score.overall <= overall_score.max

=============================================================================
